---- MODULE Spec2Model ----
(***************************************************************************)
(* zodcli: the schema-driven command line parser of src/zodcli (core.ts,   *)
(* utils.ts, types.ts).  The model covers the first revision kept in       *)
(* core.ts (lines 1-559): createParseArgsConfig, resolveValues,            *)
(* createCommand, createNestedCommands, createParser, createSubParser, and *)
(* convertValue / generateHelp of utils.ts.                                *)
(*                                                                         *)
(* Strings that the code inspects character by character (argv tokens,     *)
(* option names) are sequences of one-character strings.  JavaScript       *)
(* values are tagged records [t, v] so that values of different types can  *)
(* be compared.                                                            *)
(***************************************************************************)
EXTENDS Integers, Sequences, FiniteSets, TLC

\* ------------------------------------------------------------------------
\* Bounds of the model
\* ------------------------------------------------------------------------

\* longest argv handed to a parser
MaxArgc == 3

\* explicit positions of the small schemas are drawn from 0..MaxPosition,
\* in lists of at most MaxPosition specs
MaxPosition == 2

\* the large well-formed schema declares positions 0..BigArity-1
BigArity == 11

\* the run ids gh reports are 1..MaxRunId
MaxRunId == 2

\* number defaults are 0..MaxDefault
MaxDefault == 12

\* string defaults have at most MaxDefaultLen characters, array defaults at
\* most MaxDefaultLen items
MaxDefaultLen == 2

\* most specs with positional: true in one schema
MaxTrue == 2

\* longest argv of a call when calls are repeated on one parser
RepeatArgc == 1

\* ------------------------------------------------------------------------
\* JavaScript values
\* ------------------------------------------------------------------------

Str(s) == [t |-> "string", v |-> s]

Num(n) == [t |-> "number", v |-> n]

NaN == [t |-> "NaN", v |-> 0]

Bool(b) == [t |-> "boolean", v |-> b]

Arr(s) == [t |-> "array", v |-> s]

Undefined == [t |-> "undefined", v |-> 0]

\* the empty object, as a function from keys to values
EmptyObject == [k \in {} |-> Undefined]

\* obj[key], undefined when the property is missing
Get(obj, key) == IF key \in DOMAIN obj THEN obj[key] ELSE Undefined

\* obj[key] = value
Put(obj, key, value) == [k \in (DOMAIN obj) \cup {key} |-> IF k = key THEN value ELSE obj[k]]

Range(s) == {s[i] : i \in DOMAIN s}

\* Array.prototype.includes
Includes(s, x) == \E i \in DOMAIN s : s[i] = x

\* ------------------------------------------------------------------------
\* Number -> String and String -> Number
\* ------------------------------------------------------------------------

DigitChars == <<"0", "1", "2", "3", "4", "5", "6", "7", "8", "9">>

IsDigit(c) == \E d \in 1..10 : DigitChars[d] = c

DigitValue(c) == (CHOOSE d \in 1..10 : DigitChars[d] = c) - 1

RECURSIVE NumberToString(_)
\* String(n) for a non-negative integer n, as a sequence of characters
NumberToString(n) == IF n < 10 THEN <<DigitChars[n + 1]>>
                     ELSE Append(NumberToString(n \div 10), DigitChars[(n % 10) + 1])

RECURSIVE DecimalValue(_, _)
DecimalValue(s, acc) == IF s = <<>> THEN acc
                        ELSE DecimalValue(Tail(s), acc * 10 + DigitValue(Head(s)))

\* Number(value): the empty string is 0, a string of decimal digits is its
\* value, any other string of the token alphabet is NaN; Number(true) is 1.
Number(value) ==
    CASE value.t = "string" ->
            IF \A i \in DOMAIN value.v : IsDigit(value.v[i])
            THEN Num(DecimalValue(value.v, 0))
            ELSE NaN
      [] value.t = "boolean" -> Num(IF value.v THEN 1 ELSE 0)
      [] OTHER -> value

\* code unit of a character, for the characters a number prints as
CodeUnit(c) == IF IsDigit(c) THEN 48 + DigitValue(c) ELSE 45

RECURSIVE StringLess(_, _)
\* a < b for strings: comparison by code units
StringLess(a, b) ==
    IF b = <<>> THEN FALSE
    ELSE IF a = <<>> THEN TRUE
    ELSE IF Head(a) # Head(b) THEN CodeUnit(Head(a)) < CodeUnit(Head(b))
    ELSE StringLess(Tail(a), Tail(b))

\* ------------------------------------------------------------------------
\* Schema model (types.ts QueryBase, zod type wrappers)
\* ------------------------------------------------------------------------

ZodString == [tag |-> "ZodString"]

ZodNumber == [tag |-> "ZodNumber"]

ZodBoolean == [tag |-> "ZodBoolean"]

ZodEnum(vals) == [tag |-> "ZodEnum", values |-> vals]

ZodArray(el) == [tag |-> "ZodArray", type |-> el]

ZodOptional(inner) == [tag |-> "ZodOptional", innerType |-> inner]

\* thunk is the value the default thunk returns
ZodDefault(inner, thunk) == [tag |-> "ZodDefault", innerType |-> inner, defaultValue |-> thunk]

\* the outcome of a default thunk that throws
Throws == [t |-> "throw", v |-> 0]

\* positional?: boolean | number | "..."
PosNone == [k |-> "undefined", i |-> 0]

PosIndex(n) == [k |-> "number", i |-> n]

PosTrue == [k |-> "true", i |-> 0]

PosRest == [k |-> "...", i |-> 0]

\* short is "" when the spec declares no short alias
QueryBase(key, type, positional, short) ==
    [key |-> key, type |-> type, positional |-> positional, short |-> short]

\* ------------------------------------------------------------------------
\* Tokens of argv
\* ------------------------------------------------------------------------

tHelp == <<"-", "-", "h", "e", "l", "p">>

tH == <<"-", "h">>

tA == <<"a">>

tB == <<"b">>

t5 == <<"5">>

t10 == <<"1", "0">>

tUnknown == <<"-", "-", "x">>

\* the named boolean option "vb" (verbose) with short alias v
kVerbose == <<"v", "b">>

tVerbose == <<"-", "-", "v", "b">>

tV == <<"-", "v">>

\* the named value option "cn" (count) with short alias c
kCount == <<"c", "n">>

tCount == <<"-", "-", "c", "n">>

tC == <<"-", "c">>

tCountEq == <<"-", "-", "c", "n", "=", "1", "0">>

\* ------------------------------------------------------------------------
\* createParseArgsConfig (core.ts) and zodTypeToParseArgsType (utils.ts)
\* ------------------------------------------------------------------------

zodTypeToParseArgsType(zodType) ==
    IF zodType.tag = "ZodBoolean" THEN "boolean" ELSE "string"

\* options[option.name] = option: a new key is appended, an existing key
\* keeps its place and takes the new value
SetOption(options, option) ==
    IF \E i \in DOMAIN options : options[i].name = option.name
    THEN [i \in DOMAIN options |->
             IF options[i].name = option.name THEN option ELSE options[i]]
    ELSE Append(options, option)

HelpOption == [name |-> <<"h", "e", "l", "p">>, type |-> "boolean", short |-> "h", multiple |-> FALSE]

RECURSIVE OptionsFrom(_, _)
\* the loop over Object.entries(queryDef)
OptionsFrom(queryDef, options) ==
    IF queryDef = <<>> THEN options
    ELSE LET def == Head(queryDef)
             option == [name |-> def.key,
                        type |-> zodTypeToParseArgsType(def.type),
                        short |-> def.short,
                        multiple |-> def.type.tag = "ZodArray"]
         IN  IF def.positional # PosNone
             THEN OptionsFrom(Tail(queryDef), options)
             ELSE OptionsFrom(Tail(queryDef), SetOption(options, option))

createParseArgsConfig(queryDef) ==
    [options |-> OptionsFrom(queryDef, <<HelpOption>>),
     allowPositionals |-> TRUE,
     strict |-> FALSE]

\* ------------------------------------------------------------------------
\* parseArgs of node:util, as parseArgsWrapper calls it (strict: false,
\* allowPositionals: true).  Tokens holds no "--" terminator and no
\* single-dash token longer than two characters, so the option-terminator,
\* short-option-group and short-option-with-inline-value branches of the
\* tokenizer are not reached and are not modelled.
\* ------------------------------------------------------------------------

OptionIndex(options, longOption) ==
    {i \in DOMAIN options : options[i].name = longOption}

\* optionsGetOwn(options, longOption, 'type')
OptionType(options, longOption) ==
    IF OptionIndex(options, longOption) = {} THEN "undefined"
    ELSE options[CHOOSE i \in OptionIndex(options, longOption) : TRUE].type

\* optionsGetOwn(options, longOption, 'multiple')
OptionMultiple(options, longOption) ==
    IF OptionIndex(options, longOption) = {} THEN FALSE
    ELSE options[CHOOSE i \in OptionIndex(options, longOption) : TRUE].multiple

\* the short alias is not resolved to the long name
findLongOptionForShortUnresolved(shortOption, options) == <<shortOption>>

\* the first entry whose short alias is shortOption, else shortOption itself
findLongOptionForShort(shortOption, options) ==
    LET hits == {i \in DOMAIN options : options[i].short = shortOption}
    IN  IF hits = {} THEN <<shortOption>>
        ELSE options[CHOOSE i \in hits : \A j \in hits : i <= j].name

isLoneShortOption(arg) == Len(arg) = 2 /\ arg[1] = "-" /\ arg[2] # "-"

StartsWithDashDash(arg) == Len(arg) > 2 /\ arg[1] = "-" /\ arg[2] = "-"

\* arg.slice(3).includes('=')
HasEqualsAfter3(arg) == \E i \in 4..Len(arg) : arg[i] = "="

isLoneLongOption(arg) == StartsWithDashDash(arg) /\ ~HasEqualsAfter3(arg)

isLongOptionAndValue(arg) == StartsWithDashDash(arg) /\ HasEqualsAfter3(arg)

\* arg.indexOf('='), one-based
EqualIndex(arg) ==
    CHOOSE i \in DOMAIN arg : arg[i] = "=" /\ \A j \in 1..(i - 1) : arg[j] # "="

OptionToken(name, value) == [kind |-> "option", name |-> name, value |-> value]

PositionalToken(arg) == [kind |-> "positional", name |-> <<>>, value |-> Str(arg)]

RECURSIVE argsToTokens(_, _)
argsToTokens(remainingArgs, options) ==
    IF remainingArgs = <<>> THEN <<>>
    ELSE
      LET arg == Head(remainingArgs)
          rest == Tail(remainingArgs)
          \* isOptionValue(nextArg): any token, also one that starts with a dash
          hasNext == rest # <<>>
      IN
      IF isLoneShortOption(arg) THEN
        LET longOption == findLongOptionForShort(arg[2], options)
            takes == OptionType(options, longOption) = "string" /\ hasNext
        IN  <<OptionToken(longOption, IF takes THEN Str(Head(rest)) ELSE Undefined)>>
            \o argsToTokens(IF takes THEN Tail(rest) ELSE rest, options)
      ELSE IF isLoneLongOption(arg) THEN
        LET longOption == SubSeq(arg, 3, Len(arg))
            takes == OptionType(options, longOption) = "string" /\ hasNext
        IN  <<OptionToken(longOption, IF takes THEN Str(Head(rest)) ELSE Undefined)>>
            \o argsToTokens(IF takes THEN Tail(rest) ELSE rest, options)
      ELSE IF isLongOptionAndValue(arg) THEN
        LET longOption == SubSeq(arg, 3, EqualIndex(arg) - 1)
            value == SubSeq(arg, EqualIndex(arg) + 1, Len(arg))
        IN  <<OptionToken(longOption, Str(value))>> \o argsToTokens(rest, options)
      ELSE <<PositionalToken(arg)>> \o argsToTokens(rest, options)

storeOption(longOption, optionValue, options, values) ==
    LET newValue == IF optionValue = Undefined THEN Bool(TRUE) ELSE optionValue
    IN  IF OptionMultiple(options, longOption)
        THEN IF longOption \in DOMAIN values
             THEN Put(values, longOption, Arr(Append(values[longOption].v, newValue)))
             ELSE Put(values, longOption, Arr(<<newValue>>))
        ELSE Put(values, longOption, newValue)

RECURSIVE StoreTokens(_, _, _)
\* the loop over the tokens that fills result.values and result.positionals
StoreTokens(tokens, options, result) ==
    IF tokens = <<>> THEN result
    ELSE LET token == Head(tokens)
         IN  IF token.kind = "option"
             THEN StoreTokens(Tail(tokens), options,
                    [result EXCEPT !.values =
                        storeOption(token.name, token.value, options, result.values)])
             ELSE StoreTokens(Tail(tokens), options,
                    [result EXCEPT !.positionals = Append(result.positionals, token.value.v)])

\* an option-like token that names no option of the table is returned
\* among the positionals
parseArgsUnknownAsPositional(args, config) ==
    LET r == StoreTokens(argsToTokens(args, config.options), config.options,
                         [values |-> EmptyObject, positionals |-> <<>>])
    IN  [r EXCEPT !.positionals =
            SelectSeq(args, LAMBDA tok : tok = tUnknown \/ Includes(r.positionals, tok))]

parseArgs(args, config) ==
    StoreTokens(argsToTokens(args, config.options), config.options,
                [values |-> EmptyObject, positionals |-> <<>>])

\* ------------------------------------------------------------------------
\* convertValue (utils.ts)
\* ------------------------------------------------------------------------

RECURSIVE NumberEach(_)
\* value.map((v) => Number(v))
NumberEach(s) == IF s = <<>> THEN <<>> ELSE <<Number(Head(s))>> \o NumberEach(Tail(s))

RECURSIVE convertValueKeepsText(_, _)
\* the number branch hands the value on as it came
convertValueKeepsText(value, zodType) ==
    IF value = Undefined THEN Undefined
    ELSE CASE zodType.tag = "ZodNumber" -> value
           [] zodType.tag = "ZodEnum" -> value
           [] zodType.tag = "ZodArray" ->
                IF value.t = "array"
                THEN IF zodType.type.tag = "ZodNumber"
                     THEN Arr(NumberEach(value.v))
                     ELSE value
                ELSE IF value.t = "string" THEN Arr(<<value>>) ELSE Arr(<<>>)
           [] zodType.tag = "ZodOptional" -> convertValueKeepsText(value, zodType.innerType)
           [] zodType.tag = "ZodDefault" -> convertValueKeepsText(value, zodType.innerType)
           [] OTHER -> value

RECURSIVE convertValue(_, _)
convertValue(value, zodType) ==
    IF value = Undefined THEN Undefined
    ELSE CASE zodType.tag = "ZodNumber" ->
                IF value.t = "string" THEN Number(value) ELSE value
           [] zodType.tag = "ZodEnum" -> value
           [] zodType.tag = "ZodArray" ->
                IF value.t = "array"
                THEN IF zodType.type.tag = "ZodNumber"
                     THEN Arr(NumberEach(value.v))
                     ELSE value
                ELSE IF value.t = "string" THEN Arr(<<value>>) ELSE Arr(<<>>)
           [] zodType.tag = "ZodOptional" -> convertValue(value, zodType.innerType)
           [] zodType.tag = "ZodDefault" -> convertValue(value, zodType.innerType)
           [] OTHER -> value

\* ------------------------------------------------------------------------
\* resolveValues (core.ts)
\* ------------------------------------------------------------------------

\* a call that returned value
Ok(value) == [threw |-> FALSE, error |-> "", value |-> value]

\* a call that threw new Error(message)
Throw(message) == [threw |-> TRUE, error |-> message, value |-> EmptyObject]

ErrDuplicateIndex == "positional index duplicated"

ErrNotSequential == "positional index not sequential"

ErrMultipleRest == "multiple rest arguments"

ErrDefaultThunk == "default thunk threw"

\* the comparison Array.prototype.sort() uses when it is given no
\* comparator: both elements are converted to strings
SortCompare(a, b) == StringLess(NumberToString(a), NumberToString(b))

RECURSIVE SortInsert(_, _)
SortInsert(x, s) ==
    IF s = <<>> THEN <<x>>
    ELSE IF SortCompare(x, Head(s)) THEN <<x>> \o s
    ELSE <<Head(s)>> \o SortInsert(x, Tail(s))

RECURSIVE Sort(_)
Sort(s) == IF s = <<>> THEN <<>> ELSE SortInsert(Head(s), Sort(Tail(s)))

RECURSIVE NumberPositions(_)
\* .filter((x) => typeof x.positional === "number").map((x) => x.positional)
NumberPositions(queryDef) ==
    IF queryDef = <<>> THEN <<>>
    ELSE IF Head(queryDef).positional.k = "number"
         THEN <<Head(queryDef).positional.i>> \o NumberPositions(Tail(queryDef))
         ELSE NumberPositions(Tail(queryDef))

positionalKeys(queryDef) == Sort(NumberPositions(queryDef))

\* positionalKeys.length !== new Set(positionalKeys).size
HasDuplicateIndex(keys) == Len(keys) # Cardinality(Range(keys))

\* the indices are compared with a run that starts at the first key
NotSequentialFromFirst(keys) == \E i \in DOMAIN keys : keys[i] # keys[1] + i - 1

\* some positionalKeys[i] !== i
NotSequential(keys) == \E i \in DOMAIN keys : keys[i] # i - 1

restDefs(queryDef) == SelectSeq(queryDef, LAMBDA x : x.positional = PosRest)

\* restDefs.length > 1 and positionalKeys.includes(positionalKeys.length)
MultipleRestConflict(queryDef, keys) ==
    Len(restDefs(queryDef)) > 1 /\ Includes(keys, Len(keys))

NegInfinity == [t |-> "-Infinity", v |-> 0]

RECURSIVE SeqMax(_)
SeqMax(s) == IF Len(s) = 1 THEN s[1]
             ELSE LET m == SeqMax(Tail(s)) IN IF s[1] > m THEN s[1] ELSE m

\* Math.max(...keys): -Infinity for no arguments
MathMax(keys) == IF keys = <<>> THEN NegInfinity ELSE Num(SeqMax(keys))

\* positionals.slice(maxPositionalIndex)
SliceAfterOffByOne(positionals, maxPositionalIndex) ==
    IF maxPositionalIndex = NegInfinity THEN positionals
    ELSE SubSeq(positionals, maxPositionalIndex.v + 1, Len(positionals))

\* positionals.slice(maxPositionalIndex + 1): -Infinity + 1 is -Infinity,
\* and a start of -Infinity is clamped to 0
SliceAfter(positionals, maxPositionalIndex) ==
    IF maxPositionalIndex = NegInfinity THEN positionals
    ELSE SubSeq(positionals, maxPositionalIndex.v + 2, Len(positionals))

RECURSIVE StrEach(_)
StrEach(s) == IF s = <<>> THEN <<>> ELSE <<Str(Head(s))>> \o StrEach(Tail(s))

\* Object.keys(queryDef).find((key) => queryDef[key].positional === "...")
restParam(queryDef) ==
    LET hits == {i \in DOMAIN queryDef : queryDef[i].positional = PosRest}
    IN  IF hits = {} THEN 0 ELSE CHOOSE i \in hits : \A j \in hits : i <= j

\* the rest-argument block coercing the first remaining token to a scalar type
RestStepCoercing(rawParsed, queryDef, result) ==
    IF restParam(queryDef) = 0 THEN result
    ELSE LET def == queryDef[restParam(queryDef)]
             rest == SliceAfter(rawParsed.positionals, MathMax(positionalKeys(queryDef)))
         IN  IF def.type.tag = "ZodArray"
             THEN Put(result, def.key, convertValue(Arr(StrEach(rest)), def.type))
             ELSE IF rest = <<>> THEN result
                  ELSE Put(result, def.key, convertValue(Str(rest[1]), def.type))

\* the rest-argument block: result after it
RestStep(rawParsed, queryDef, result) ==
    IF restParam(queryDef) = 0 THEN result
    ELSE LET def == queryDef[restParam(queryDef)]
             restValues == Arr(StrEach(SliceAfter(rawParsed.positionals,
                                                  MathMax(positionalKeys(queryDef)))))
         IN  IF def.type.tag = "ZodArray"
             THEN Put(result, def.key, convertValue(restValues, def.type))
             ELSE Put(result, def.key, restValues)

\* result[key] = def.type._def.defaultValue()
ApplyDefault(result, def) ==
    IF def.type.defaultValue = Throws THEN Throw(ErrDefaultThunk)
    ELSE Ok(Put(result, def.key, def.type.defaultValue))

\* rawParsed.positionals[def.positional]: the property named "true" of an
\* array is undefined
PositionalValue(positionals, positional) ==
    IF positional.k = "number" /\ positional.i < Len(positionals)
    THEN Str(positionals[positional.i + 1])
    ELSE Undefined

RECURSIVE PositionalLoop(_, _, _)
PositionalLoop(defs, positionals, acc) ==
    IF defs = <<>> \/ acc.threw THEN acc
    ELSE LET def == Head(defs)
             value == PositionalValue(positionals, def.positional)
         IN  IF def.positional = PosNone \/ def.positional = PosRest
             THEN PositionalLoop(Tail(defs), positionals, acc)
             ELSE IF value # Undefined
             THEN PositionalLoop(Tail(defs), positionals,
                    Ok(Put(acc.value, def.key, convertValue(value, def.type))))
             ELSE IF def.type.tag = "ZodDefault"
             THEN PositionalLoop(Tail(defs), positionals, ApplyDefault(acc.value, def))
             ELSE PositionalLoop(Tail(defs), positionals, acc)

RECURSIVE NamedLoop(_, _, _)
NamedLoop(defs, values, acc) ==
    IF defs = <<>> \/ acc.threw THEN acc
    ELSE LET def == Head(defs)
             value == Get(values, def.key)
         IN  IF def.positional # PosNone
             THEN NamedLoop(Tail(defs), values, acc)
             ELSE IF value # Undefined
             THEN NamedLoop(Tail(defs), values,
                    Ok(Put(acc.value, def.key, convertValue(value, def.type))))
             ELSE IF def.type.tag = "ZodDefault"
             THEN NamedLoop(Tail(defs), values, ApplyDefault(acc.value, def))
             ELSE NamedLoop(Tail(defs), values, acc)

resolveValues(rawParsed, queryDef) ==
    LET keys == positionalKeys(queryDef)
    IN  IF HasDuplicateIndex(keys) THEN Throw(ErrDuplicateIndex)
        ELSE IF NotSequential(keys) THEN Throw(ErrNotSequential)
        ELSE IF MultipleRestConflict(queryDef, keys) THEN Throw(ErrMultipleRest)
        ELSE NamedLoop(queryDef, rawParsed.values,
               PositionalLoop(queryDef, rawParsed.positionals,
                 Ok(RestStep(rawParsed, queryDef, EmptyObject))))

\* ------------------------------------------------------------------------
\* createZodSchema (core.ts) and zodSchema.safeParse
\* ------------------------------------------------------------------------

RECURSIVE zodAccepts(_, _)
\* the zod type accepts the value
zodAccepts(zodType, value) ==
    CASE zodType.tag = "ZodString" -> value.t = "string"
      [] zodType.tag = "ZodNumber" -> value.t = "number"
      [] zodType.tag = "ZodBoolean" -> value.t = "boolean"
      [] zodType.tag = "ZodEnum" -> value.t = "string" /\ Includes(zodType.values, value.v)
      [] zodType.tag = "ZodArray" ->
            value.t = "array" /\ \A i \in DOMAIN value.v : zodAccepts(zodType.type, value.v[i])
      [] zodType.tag = "ZodOptional" ->
            value = Undefined \/ zodAccepts(zodType.innerType, value)
      [] zodType.tag = "ZodDefault" ->
            IF value = Undefined
            THEN zodAccepts(zodType.innerType, zodType.defaultValue)
            ELSE zodAccepts(zodType.innerType, value)
      [] OTHER -> FALSE

\* the outcome of the validation is not looked at
zodIssuesIgnored(queryDef, resolved) == {}

\* the keys of z.object(schema) whose value is rejected
zodIssues(queryDef, resolved) ==
    {queryDef[i].key : i \in {j \in DOMAIN queryDef :
                                ~zodAccepts(queryDef[j].type, Get(resolved, queryDef[j].key))}}

\* a default thunk that zod itself has to call throws
zodThrows(queryDef, resolved) ==
    \E i \in DOMAIN queryDef :
        /\ queryDef[i].type.tag = "ZodDefault"
        /\ queryDef[i].type.defaultValue = Throws
        /\ Get(resolved, queryDef[i].key) = Undefined

\* ------------------------------------------------------------------------
\* getTypeDisplayString and generateHelp (utils.ts).  A help text is the
\* sequence of its non-blank lines; a line keeps the pieces that the
\* template string concatenates.  No spec of the model declares a
\* description, so desc is "" on every line.
\* ------------------------------------------------------------------------

RECURSIVE Join(_, _)
\* values.join(sep)
Join(values, sep) ==
    IF values = <<>> THEN <<>>
    ELSE IF Len(values) = 1 THEN values[1]
    ELSE values[1] \o <<sep>> \o Join(Tail(values), sep)

RECURSIVE getTypeDisplayString(_)
getTypeDisplayString(zodType) ==
    CASE zodType.tag = "ZodString" -> <<"str">>
      [] zodType.tag = "ZodNumber" -> <<"num">>
      [] zodType.tag = "ZodBoolean" -> <<"bool">>
      [] zodType.tag = "ZodEnum" -> Join(zodType.values, "|")
      [] zodType.tag = "ZodArray" -> getTypeDisplayString(zodType.type) \o <<"[]">>
      [] zodType.tag = "ZodOptional" -> getTypeDisplayString(zodType.innerType)
      [] zodType.tag = "ZodDefault" -> getTypeDisplayString(zodType.innerType)
      [] OTHER -> <<"any">>

RECURSIVE JSONStringify(_)
JSONStringify(value) ==
    CASE value.t = "number" -> NumberToString(value.v)
      [] value.t = "string" -> <<"\"">> \o value.v \o <<"\"">>
      [] value.t = "boolean" ->
            IF value.v THEN <<"t", "r", "u", "e">> ELSE <<"f", "a", "l", "s", "e">>
      [] value.t = "array" ->
            <<"[">> \o Join([i \in DOMAIN value.v |-> JSONStringify(value.v[i])], ",") \o <<"]">>
      [] OTHER -> <<"n", "u", "l", "l">>

HelpLine(section, key, type, short, default) ==
    [section |-> section, key |-> key, type |-> type, short |-> short, default |-> default]

Heading(title) == HelpLine(title, <<>>, <<>>, "", <<>>)

\* def.positional != null && def.positional !== "..."
IsHelpArgument(def) == def.positional # PosNone /\ def.positional # PosRest

\* !def.positional: undefined and the number 0 are falsy
IsHelpOption(def) == def.positional = PosNone \/ def.positional = PosIndex(0)

\* def.type instanceof z.ZodBoolean ? "" : ` <${typeStr}>`
typeDisplay(def) ==
    IF def.type.tag = "ZodBoolean" THEN <<>> ELSE getTypeDisplayString(def.type)

ArgumentLine(def) ==
    HelpLine("ARGUMENTS", def.key, getTypeDisplayString(def.type), "", <<>>)

RestLine(def) ==
    HelpLine("REST", def.key, getTypeDisplayString(def.type) \o <<"[]">>, "", <<>>)

OptionLine(def) ==
    HelpLine("OPTIONS", def.key, typeDisplay(def), def.short,
             IF def.type.tag = "ZodDefault" THEN JSONStringify(def.type.defaultValue) ELSE <<>>)

SubCommandLine(sub) ==
    HelpLine("SUBCOMMANDS", sub.name, <<sub.def.description>>, "", <<>>)

\* the lines of the entries that pass the filter, in declaration order
LinesOf(queryDef, Filter(_), LineOf(_)) ==
    LET selected == SelectSeq(queryDef, Filter)
    IN  [i \in DOMAIN selected |-> LineOf(selected[i])]

\* a section with its title, or nothing when it has no line
Section(title, lines) == IF lines = <<>> THEN <<>> ELSE <<Heading(title)>> \o lines

generateHelp(commandName, description, queryDef, subCommands) ==
    <<HelpLine("HEADER", <<commandName>>, <<description>>, "", <<>>)>>
    \o Section("SUBCOMMANDS:", [i \in DOMAIN subCommands |-> SubCommandLine(subCommands[i])])
    \o Section("ARGUMENTS:", LinesOf(queryDef, IsHelpArgument, ArgumentLine))
    \o (IF restParam(queryDef) = 0 THEN <<>> ELSE <<RestLine(queryDef[restParam(queryDef)])>>)
    \o Section("OPTIONS:", LinesOf(queryDef, IsHelpOption, OptionLine))
    \o <<Heading("FLAGS:"), HelpLine("FLAGS", <<"h", "e", "l", "p">>, <<>>, "h", <<>>)>>

\* ------------------------------------------------------------------------
\* The schemas and argv the parsers are exercised with
\* ------------------------------------------------------------------------

StringArray == ZodArray(ZodString)

NumberArray == ZodArray(ZodNumber)

\* explicit positions in declaration order: every list of at most
\* MaxPosition positions out of 0..MaxPosition (with gaps, duplicates and
\* permutations), and the well-formed lists 0..BigArity-2 and 0..BigArity-1
PositionLists ==
    UNION {[1..n -> 0..MaxPosition] : n \in 0..MaxPosition}
    \cup {[j \in 1..n |-> j - 1] : n \in {BigArity - 1, BigArity}}

WellFormedLists == {<<>>, <<0>>, <<0, 1>>, <<1, 0>>}

\* the types of the specs that declare positional: "..."
RestConfigs ==
    << <<>>,
       <<StringArray>>,
       <<NumberArray>>,
       <<ZodString>>,
       <<StringArray, StringArray>>,
       <<StringArray, ZodOptional(StringArray)>>,
       <<StringArray, ZodDefault(StringArray, Arr(<<>>))>>,
       <<ZodNumber>> >>

\* the types of the spec declared first, when it is an indexed positional
FirstTypes ==
    << ZodNumber,
       ZodEnum(<<tA, tB>>),
       ZodOptional(ZodString),
       ZodDefault(ZodString, Str(<<"d">>)),
       ZodDefault(ZodString, Throws) >>

VerboseSpec == QueryBase(kVerbose, ZodDefault(ZodBoolean, Bool(FALSE)), PosNone, "v")

CountSpec == QueryBase(kCount, ZodDefault(ZodNumber, Num(5)), PosNone, "c")

\* a named argument called help, and a flag with the short alias h
HelpNamedSpec == QueryBase(<<"h", "e", "l", "p">>, ZodString, PosNone, "")

ShortHSpec == QueryBase(<<"q">>, ZodBoolean, PosNone, "h")

\* a schema: indexed positionals p0, p1, ... at the positions pos, nTrue
\* specs with positional: true, one rest spec per element of rest, and the
\* named options named
MkQueryDef(pos, first, nTrue, rest, named) ==
    [j \in 1..Len(pos) |->
        QueryBase(<<"p">> \o NumberToString(j - 1),
                  IF j = 1 THEN first ELSE ZodString, PosIndex(pos[j]), "")]
    \o [j \in 1..nTrue |-> QueryBase(<<"t">> \o NumberToString(j), ZodString, PosTrue, "")]
    \o [j \in 1..Len(rest) |->
        QueryBase(IF j = 1 THEN <<"r">> ELSE <<"s">>, rest[j], PosRest, "")]
    \o (IF "vb" \in named THEN <<VerboseSpec>> ELSE <<>>)
    \o (IF "cn" \in named THEN <<CountSpec>> ELSE <<>>)
    \o (IF "help" \in named THEN <<HelpNamedSpec>> ELSE <<>>)
    \o (IF "q" \in named THEN <<ShortHSpec>> ELSE <<>>)

CommandSchema(name, description, args) ==
    [name |-> name, description |-> description, args |-> args]

\* the tokens of an argv for a schema that declares the named options named
TokensFor(named) ==
    {tHelp, tH, tA, t5, tUnknown}
    \cup (IF "vb" \in named THEN {tVerbose, tV} ELSE {})
    \cup (IF "cn" \in named THEN {tCount, tC, tCountEq, t10} ELSE {})

ArgvOver(tokens) == UNION {[1..n -> tokens] : n \in 0..MaxArgc}

\* subcommand maps of the dispatcher
SubA == [name |-> tA,
         def |-> CommandSchema("a", "first", MkQueryDef(<<0>>, ZodString, 0, <<StringArray>>, {}))]

SubB == [name |-> tB,
         def |-> CommandSchema("b", "second", MkQueryDef(<<0>>, ZodNumber, 0, <<>>, {}))]

SubCommandMaps == << <<SubA, SubB>>, <<SubB>> >>

\* options.default: <<>> stands for no default command
DefaultCommands == {<<>>, tA, tB}

NestedTokens == {tHelp, tH, tA, tB, t5}

\* ------------------------------------------------------------------------
\* Results and errors (types.ts)
\* ------------------------------------------------------------------------

NoError == [name |-> "", message |-> "", detail |-> <<>>, issues |-> {}]

\* new Error(`${message}: ${detail}`): the text of the template and the
\* value it interpolates
JsErrorWith(message, detail) ==
    [name |-> "Error", message |-> message, detail |-> detail, issues |-> {}]

\* new Error(message)
JsError(message) == JsErrorWith(message, <<>>)

\* validation.error of a failed zodSchema.safeParse: the rejected keys
ZodError(issues) ==
    [name |-> "ZodError", message |-> "invalid arguments", detail |-> <<>>, issues |-> issues]

\* CommandResult
NoResult == [type |-> "none", data |-> EmptyObject, error |-> NoError, helpText |-> <<>>]

SuccessResult(data) ==
    [type |-> "success", data |-> data, error |-> NoError, helpText |-> <<>>]

HelpResult(helpText) ==
    [type |-> "help", data |-> EmptyObject, error |-> NoError, helpText |-> helpText]

ErrorResult(error, helpText) ==
    [type |-> "error", data |-> EmptyObject, error |-> error, helpText |-> helpText]

\* an exception that leaves a call instead of a result
Propagated(error) ==
    [type |-> "throw", data |-> EmptyObject, error |-> error, helpText |-> <<>>]

\* NestedCommandResult
NoNestedResult ==
    [type |-> "none", name |-> <<>>, result |-> NoResult, error |-> NoError, helpText |-> <<>>]

NestedHelpResult(helpText) ==
    [type |-> "help", name |-> <<>>, result |-> NoResult, error |-> NoError, helpText |-> helpText]

NestedErrorResult(error, helpText) ==
    [type |-> "error", name |-> <<>>, result |-> NoResult, error |-> error, helpText |-> helpText]

SubCommandResult(name, result) ==
    [type |-> "subcommand", name |-> name, result |-> result, error |-> NoError, helpText |-> <<>>]

\* what a public parse or safeParse hands to its caller
NoOut == [api |-> "", threw |-> FALSE, ok |-> FALSE, command |-> <<>>,
          data |-> EmptyObject, error |-> NoError]

\* parse returned the data (of the subcommand command, <<>> for createParser)
Returned(command, data) ==
    [api |-> "parse", threw |-> FALSE, ok |-> TRUE, command |-> command,
     data |-> data, error |-> NoError]

\* the call threw error
Threw(api, error) ==
    [api |-> api, threw |-> TRUE, ok |-> FALSE, command |-> <<>>,
     data |-> EmptyObject, error |-> error]

\* safeParse returned { ok: true, data }
SafeOk(command, data) ==
    [api |-> "safeParse", threw |-> FALSE, ok |-> TRUE, command |-> command,
     data |-> data, error |-> NoError]

\* safeParse returned { ok: false, error }
SafeFail(error) ==
    [api |-> "safeParse", threw |-> FALSE, ok |-> FALSE, command |-> <<>>,
     data |-> EmptyObject, error |-> error]

\* ------------------------------------------------------------------------
\* State
\* ------------------------------------------------------------------------

VARIABLES
    entry,          \* "createParser" or "createSubParser": the constructor used
    definition,     \* createParser's definition
    subCommands,    \* createSubParser's subCommands, in declaration order
    defaultCommand, \* options.default of createSubParser, <<>> when not set
    commands,       \* the commands built at construction: [name, command]
    pc,             \* where the construction or the current call stands
    argv,           \* the argv of the current call of the public entry point
    active,         \* index in commands of the command whose parse runs
    cmdArgv,        \* the argv handed to createCommand.parse
    rawParsed,      \* { values, positionals } of parseArgsWrapper
    resolved,       \* the record resolveValues returned
    exception,      \* the error thrown inside the try block
    result,         \* the CommandResult of createCommand.parse
    nestedResult,   \* the NestedCommandResult of createNestedCommands.parse
    out,            \* what the public parse / safeParse handed to the caller
    first,          \* argv and outcome of the first completed call, when calls repeat
    runner,         \* run(schema, args, onSuccess, onError): its callbacks and position
    ci,             \* the call of a CI poller of src/scripts
    trip            \* a default value, its text in the help and the text converted back

vars == <<entry, definition, subCommands, defaultCommand, commands, pc, argv, active,
          cmdArgv, rawParsed, resolved, exception, result, nestedResult, out, first,
          runner, ci, trip>>

\* what no statement of core.ts touches
others == <<runner, ci, trip>>

config == <<entry, definition, subCommands, defaultCommand>>

NoDefinition == CommandSchema("", "", <<>>)

\* no call has completed yet
NoCall == [argv |-> <<>>, out |-> NoOut]

NoRaw == [values |-> EmptyObject, positionals |-> <<>>]

\* ------------------------------------------------------------------------
\* createCommand, createNestedCommands, createParser, createSubParser
\* ------------------------------------------------------------------------

\* generateHelp calls the default thunk of every entry it lists under
\* OPTIONS; a thunk that throws makes generateHelp, and with it createCommand,
\* throw
generateHelpThrows(queryDef) ==
    \E i \in DOMAIN queryDef :
        /\ IsHelpOption(queryDef[i])
        /\ queryDef[i].type.tag = "ZodDefault"
        /\ queryDef[i].type.defaultValue = Throws

\* what createCommand derives from its commandDef and keeps in its closure
createCommand(commandDef) ==
    [queryDef |-> commandDef.args,
     parseArgsConfig |-> createParseArgsConfig(commandDef.args),
     helpText |-> generateHelp(commandDef.name, commandDef.description, commandDef.args, <<>>)]

\* the help flag is looked for in the first token only
ArgvHasHelpFirstOnly(a) == a # <<>> /\ (a[1] = tH \/ a[1] = tHelp)

\* argv.includes("-h") || argv.includes("--help")
ArgvHasHelp(a) == Includes(a, tH) \/ Includes(a, tHelp)

\* the positionals of a call are appended to those of the first call
parseArgsWrapperShared(args, parseArgsConfig) ==
    [parseArgs(args, parseArgsConfig) EXCEPT
        !.positionals = IF first.out.api = "" THEN @
                        ELSE parseArgs(first.argv, parseArgsConfig).positionals \o @]

parseArgsWrapper(args, parseArgsConfig) == parseArgs(args, parseArgsConfig)

\* the exception is not caught
parseCatchRethrow(error, helpText) == Propagated(error)

\* the error result of the catch block carries no help text
parseCatchWithoutHelp(error, helpText) == ErrorResult(error, <<>>)

\* the catch block of createCommand.parse
parseCatch(error, helpText) == ErrorResult(error, helpText)

\* createCommand.parse as one function of the command and its argv
parse(cmd, a) ==
    IF ArgvHasHelp(a) THEN HelpResult(cmd.helpText)
    ELSE LET r == resolveValues(parseArgsWrapper(a, cmd.parseArgsConfig), cmd.queryDef)
         IN  IF r.threw THEN parseCatch(JsError(r.error), cmd.helpText)
             ELSE IF zodThrows(cmd.queryDef, r.value)
             THEN parseCatch(JsError(ErrDefaultThunk), cmd.helpText)
             ELSE IF zodIssues(cmd.queryDef, r.value) # {}
             THEN ErrorResult(ZodError(zodIssues(cmd.queryDef, r.value)), cmd.helpText)
             ELSE SuccessResult(r.value)

\* the default name and description of createNestedCommands / createSubParser
rootName == "command"

rootDescription == "Command with subcommands"

\* the root help is rendered without the subcommand map
rootHelpTextWithoutSubCommands(subs) == generateHelp(rootName, rootDescription, <<>>, <<>>)

rootHelpText(subs) == generateHelp(rootName, rootDescription, <<>>, subs)

commandNames(subs) == {subs[i].name : i \in DOMAIN subs}

\* the default command is not validated
DefaultCommandNeverMissing(subs, default) == FALSE

\* defaultCommand && !commandNames.has(defaultCommand)
DefaultCommandMissing(subs, default) == default # <<>> /\ default \notin commandNames(subs)

\* the default command is tried before the declared names
ResolveSubCommandDefaultFirst(a, subs, default) ==
    IF default # <<>>
    THEN [known |-> TRUE, name |-> default, args |-> a]
    ELSE IF a[1] \in {subs[i].name : i \in DOMAIN subs}
    THEN [known |-> TRUE, name |-> a[1], args |-> Tail(a)]
    ELSE [known |-> FALSE, name |-> a[1], args |-> <<>>]

\* the default command consumes the first token, as a declared name does
ResolveSubCommandDefaultConsumes(a, subs, default) ==
    IF a[1] \in commandNames(subs)
    THEN [known |-> TRUE, name |-> a[1], args |-> Tail(a)]
    ELSE IF default # <<>>
    THEN [known |-> TRUE, name |-> default, args |-> Tail(a)]
    ELSE [known |-> FALSE, name |-> a[1], args |-> <<>>]

\* without a default command an unknown name goes to the first subcommand
ResolveSubCommandFirstDeclared(a, subs, default) ==
    IF a[1] \in commandNames(subs)
    THEN [known |-> TRUE, name |-> a[1], args |-> Tail(a)]
    ELSE IF default # <<>>
    THEN [known |-> TRUE, name |-> default, args |-> a]
    ELSE [known |-> TRUE, name |-> subs[1].name, args |-> a]

\* the resolution of the subcommand name in createNestedCommands.parse:
\* the name and the argv of the subcommand, or known = FALSE
ResolveSubCommand(a, subs, default) ==
    IF a[1] \in commandNames(subs)
    THEN [known |-> TRUE, name |-> a[1], args |-> Tail(a)]
    ELSE IF default # <<>>
    THEN [known |-> TRUE, name |-> default, args |-> a]
    ELSE [known |-> FALSE, name |-> a[1], args |-> <<>>]

\* commands.get(name): the index of the command, 0 when there is none
CommandIndex(cmds, name) ==
    IF \E i \in DOMAIN cmds : cmds[i].name = name
    THEN CHOOSE i \in DOMAIN cmds : cmds[i].name = name
    ELSE 0

ErrHelpRequested == "Help requested"

ErrHelpRequestedParse == "Help requested. Use --help or -h to display help information."

ErrHelpRequestedSub == "Help requested for subcommand"

ErrUnknownSubcommand == "Unknown subcommand"

\* createNestedCommands.parse as one function of the subcommand map, the
\* default command and argv
nestedParse(subs, default, a) ==
    IF ArgvHasHelp(a) \/ Len(a) = 0 THEN NestedHelpResult(rootHelpText(subs))
    ELSE LET sub == ResolveSubCommand(a, subs, default)
             index == CommandIndex(subs, sub.name)
         IN  IF ~sub.known \/ index = 0
             THEN NestedErrorResult(JsErrorWith(ErrUnknownSubcommand, sub.name),
                                    rootHelpText(subs))
             ELSE SubCommandResult(sub.name, parse(createCommand(subs[index].def), sub.args))

\* the help branch is missing: a help result falls through to the return
ParserParseNoHelpBranch(res) ==
    CASE res.type = "throw" -> Threw("parse", res.error)
      [] res.type = "error" -> Threw("parse", res.error)
      [] OTHER -> Returned(<<>>, res.data)

\* createParser.parse after command.parse returned res
ParserParse(res) ==
    CASE res.type = "throw" -> Threw("parse", res.error)
      [] res.type = "error" -> Threw("parse", res.error)
      [] res.type = "help" -> Threw("parse", JsError(ErrHelpRequestedParse))
      [] OTHER -> Returned(<<>>, res.data)

\* the help branch is missing: a help result falls through to the success
\* return
ParserSafeParseNoHelpBranch(res) ==
    CASE res.type = "throw" -> Threw("safeParse", res.error)
      [] res.type = "error" -> SafeFail(res.error)
      [] OTHER -> SafeOk(<<>>, res.data)

\* createParser.safeParse after command.parse returned res
ParserSafeParse(res) ==
    CASE res.type = "throw" -> Threw("safeParse", res.error)
      [] res.type = "error" -> SafeFail(res.error)
      [] res.type = "help" -> SafeFail(JsError(ErrHelpRequested))
      [] OTHER -> SafeOk(<<>>, res.data)

\* createSubParser.parse after subCommandHandler.parse returned res
SubParserParse(res) ==
    CASE res.type = "error" -> Threw("parse", res.error)
      [] res.type = "help" -> Threw("parse", JsError(ErrHelpRequested))
      [] res.type = "subcommand" ->
            CASE res.result.type = "throw" -> Threw("parse", res.result.error)
              [] res.result.type = "error" -> Threw("parse", res.result.error)
              [] res.result.type = "help" ->
                    Threw("parse", JsErrorWith(ErrHelpRequestedSub, res.name))
              [] OTHER -> Returned(res.name, res.result.data)
      [] OTHER -> Threw("parse", JsError("Unknown parse result"))

\* createSubParser.safeParse after subCommandHandler.parse returned res
SubParserSafeParse(res) ==
    CASE res.type = "error" -> SafeFail(res.error)
      [] res.type = "help" -> SafeFail(JsError(ErrHelpRequested))
      [] res.type = "subcommand" ->
            CASE res.result.type = "throw" -> Threw("safeParse", res.result.error)
              [] res.result.type = "error" -> SafeFail(res.result.error)
              [] res.result.type = "help" ->
                    SafeFail(JsErrorWith(ErrHelpRequestedSub, res.name))
              [] OTHER -> SafeOk(res.name, res.result.data)
      [] OTHER -> SafeFail(JsError("Unknown parse result"))

\* ------------------------------------------------------------------------
\* Initial states
\* ------------------------------------------------------------------------

\* the schema with explicit positions p, first type FirstTypes[f] (ZodString
\* for f = 0), n specs with positional: true, rest specs RestConfigs[r] and
\* the named options named
SchemaOf(p, f, n, r, named) ==
    CommandSchema("search", "Search with custom parameters",
        MkQueryDef(p, IF f = 0 THEN ZodString ELSE FirstTypes[f], n, RestConfigs[r], named))

\* the schemas vary one aspect at a time: the explicit positions, the rest
\* specs, the named options, the specs with positional: true, the first type
InFamily(p, f, n, r, named) ==
    \/ f = 0 /\ n = 0 /\ r \in 1..2 /\ named = {}
    \/ f = 0 /\ n = 0 /\ p \in WellFormedLists /\ named = {}
    \/ f = 0 /\ n = 0 /\ p \in {<<>>, <<0>>} /\ r \in 1..2 /\ named \subseteq {"vb", "cn"}
    \/ f = 0 /\ p = <<>> /\ r = 1 /\ named \subseteq {"vb"}
    \/ f = 0 /\ n = 0 /\ p \in {<<>>, <<0>>} /\ r = 1 /\ named = {"cn"}
    \/ f = 0 /\ n = 0 /\ p = <<0>> /\ r = 1 /\ named \in {{"help"}, {"q"}}
    \/ f = 0 /\ n = 0 /\ p \in {<<>>, <<0>>} /\ r \in {4, 8} /\ named = {}
    \/ n = 0 /\ p \in {<<0>>, <<0, 1>>, <<1, 0>>} /\ r = 1 /\ named = {}

\* the named options a schema declares
DeclaredNamed(queryDef) ==
    (IF \E i \in DOMAIN queryDef : queryDef[i].key = kVerbose THEN {"vb"} ELSE {})
    \cup (IF \E i \in DOMAIN queryDef : queryDef[i].key = kCount THEN {"cn"} ELSE {})
    \cup (IF \E i \in DOMAIN queryDef : queryDef[i] = HelpNamedSpec THEN {"help"} ELSE {})
    \cup (IF \E i \in DOMAIN queryDef : queryDef[i] = ShortHSpec THEN {"q"} ELSE {})

\* no call of run is under way
NoRun == [at |-> "idle", onSuccess |-> "returns", onError |-> "returns", invoked |-> <<>>]

\* no poller is running
NoPoller ==
    [poller |-> "", at |-> "idle", prevRunId |-> 0, maxRetry |-> 0, runId |-> 0,
     outputs |-> <<>>, sleeps |-> 0, pushed |-> FALSE, watched |-> FALSE, error |-> ""]

\* no default value is being rendered
NoTrip ==
    [at |-> "idle", type |-> [tag |-> ""], default |-> Undefined, rendered |-> <<>>,
     converted |-> Undefined]

\* the parser before its construction
ParserNew ==
    /\ pc = "New"
    /\ commands = <<>>
    /\ argv = <<>>
    /\ active = 0
    /\ cmdArgv = <<>>
    /\ rawParsed = NoRaw
    /\ resolved = EmptyObject
    /\ exception = NoError
    /\ result = NoResult
    /\ nestedResult = NoNestedResult
    /\ out = NoOut
    /\ first = NoCall
    /\ \/ /\ entry = "createParser"
          /\ subCommands = <<>>
          /\ defaultCommand = <<>>
          /\ \E p \in PositionLists, f \in 0..Len(FirstTypes), n \in 0..MaxTrue,
                r \in DOMAIN RestConfigs, named \in SUBSET {"vb", "cn", "help", "q"} :
                /\ InFamily(p, f, n, r, named)
                /\ definition = SchemaOf(p, f, n, r, named)
       \/ /\ entry = "createSubParser"
          /\ definition = NoDefinition
          /\ \E m \in DOMAIN SubCommandMaps : subCommands = SubCommandMaps[m]
          /\ defaultCommand \in DefaultCommands

Init ==
    /\ runner = NoRun
    /\ ci = NoPoller
    /\ trip = NoTrip
    /\ ParserNew

\* ------------------------------------------------------------------------
\* Construction
\* ------------------------------------------------------------------------

\* createParser(definition): const command = createCommand(definition),
\* which throws when generateHelp does
ConstructParser ==
    /\ pc = "New"
    /\ entry = "createParser"
    /\ IF generateHelpThrows(definition.args)
       THEN /\ commands' = <<>>
            /\ pc' = "ConstructionFailed"
       ELSE /\ commands' = <<[name |-> <<>>, command |-> createCommand(definition)]>>
            /\ pc' = "Ready"
    /\ UNCHANGED <<others, config, first, argv, active, cmdArgv, rawParsed, resolved, exception,
                   result, nestedResult, out>>

\* createSubParser(subCommands, options): createNestedCommands builds one
\* command per subcommand, then throws when the default command is unknown
ConstructSubParser ==
    /\ pc = "New"
    /\ entry = "createSubParser"
    /\ commands' = [i \in DOMAIN subCommands |->
                      [name |-> subCommands[i].name,
                       command |-> createCommand(subCommands[i].def)]]
    /\ pc' = IF \/ \E i \in DOMAIN subCommands : generateHelpThrows(subCommands[i].def.args)
                \/ DefaultCommandMissing(subCommands, defaultCommand)
             THEN "ConstructionFailed" ELSE "Ready"
    /\ UNCHANGED <<others, config, first, argv, active, cmdArgv, rawParsed, resolved, exception,
                   result, nestedResult, out>>

\* ------------------------------------------------------------------------
\* createCommand.parse(cmdArgv) of the active command
\* ------------------------------------------------------------------------

command == commands[active].command

\* the caller of createParser's parse / safeParse passes argv, which goes to
\* command.parse unchanged
CallParser ==
    /\ pc = "Ready"
    /\ entry = "createParser"
    /\ \E a \in ArgvOver(TokensFor(DeclaredNamed(definition.args))) :
          /\ argv' = a
          /\ cmdArgv' = a
    /\ active' = 1
    /\ pc' = "Start"
    /\ UNCHANGED <<others, config, first, commands, rawParsed, resolved, exception, result,
                   nestedResult, out>>

\* the help flag check
HelpDetected ==
    /\ pc = "Start"
    /\ ArgvHasHelp(cmdArgv)
    /\ result' = HelpResult(command.helpText)
    /\ pc' = "Help"
    /\ UNCHANGED <<others, config, first, commands, argv, active, cmdArgv, rawParsed, resolved,
                   exception, nestedResult, out>>

\* const { values, positionals } = parseArgsWrapper(argv)
Tokenize ==
    /\ pc = "Start"
    /\ ~ArgvHasHelp(cmdArgv)
    /\ rawParsed' = parseArgsWrapper(cmdArgv, command.parseArgsConfig)
    /\ pc' = "Tokenized"
    /\ UNCHANGED <<others, config, first, commands, argv, active, cmdArgv, resolved, exception,
                   result, nestedResult, out>>

\* const resolved = resolveValues({ values, positionals }, queryDef)
Resolve ==
    /\ pc = "Tokenized"
    /\ LET r == resolveValues(rawParsed, command.queryDef)
       IN  IF r.threw
           THEN /\ exception' = JsError(r.error)
                /\ pc' = "ResolutionFailed"
                /\ UNCHANGED resolved
           ELSE /\ resolved' = r.value
                /\ pc' = "Resolved"
                /\ UNCHANGED exception
    /\ UNCHANGED <<others, config, first, commands, argv, active, cmdArgv, rawParsed, result,
                   nestedResult, out>>

\* const validation = zodSchema.safeParse(resolved) and the two returns
Validate ==
    /\ pc = "Resolved"
    /\ IF zodThrows(command.queryDef, resolved)
       THEN /\ exception' = JsError(ErrDefaultThunk)
            /\ pc' = "ResolutionFailed"
            /\ UNCHANGED result
       ELSE IF zodIssues(command.queryDef, resolved) # {}
       THEN /\ result' = ErrorResult(ZodError(zodIssues(command.queryDef, resolved)),
                                     command.helpText)
            /\ pc' = "Error"
            /\ UNCHANGED exception
       ELSE /\ result' = SuccessResult(resolved)
            /\ pc' = "Success"
            /\ UNCHANGED exception
    /\ UNCHANGED <<others, config, first, commands, argv, active, cmdArgv, rawParsed, resolved,
                   nestedResult, out>>

\* catch (error) { return { type: "error", ... } }
Catch ==
    /\ pc = "ResolutionFailed"
    /\ result' = parseCatch(exception, command.helpText)
    /\ pc' = IF parseCatch(exception, command.helpText).type = "throw"
             THEN "Thrown" ELSE "Error"
    /\ UNCHANGED <<others, config, first, commands, argv, active, cmdArgv, rawParsed, resolved,
                   exception, nestedResult, out>>

CommandReturned == pc \in {"Help", "Success", "Error", "Thrown"}

\* createParser.parse: the statements after command.parse(argv)
ParserParseReturn ==
    /\ CommandReturned
    /\ entry = "createParser"
    /\ out' = ParserParse(result)
    /\ pc' = "Returned"
    /\ UNCHANGED <<others, config, first, commands, argv, active, cmdArgv, rawParsed, resolved,
                   exception, result, nestedResult>>

\* createParser.safeParse: the statements after command.parse(argv)
ParserSafeParseReturn ==
    /\ CommandReturned
    /\ entry = "createParser"
    /\ out' = ParserSafeParse(result)
    /\ pc' = "Returned"
    /\ UNCHANGED <<others, config, first, commands, argv, active, cmdArgv, rawParsed, resolved,
                   exception, result, nestedResult>>

\* ------------------------------------------------------------------------
\* createNestedCommands.parse(argv) and the createSubParser entry points
\* ------------------------------------------------------------------------

\* the caller of createSubParser's parse / safeParse passes argv, which goes
\* to subCommandHandler.parse unchanged
CallSubParser ==
    /\ pc = "Ready"
    /\ entry = "createSubParser"
    /\ argv' \in ArgvOver(NestedTokens)
    /\ pc' = "Root"
    /\ UNCHANGED <<others, config, first, commands, active, cmdArgv, rawParsed, resolved, exception,
                   result, nestedResult, out>>

\* the help flag is looked for in the first token only
RootHelpRequestedFirstOnly(a) == IF Len(a) = 0 THEN TRUE ELSE a[1] \in {tH, tHelp}

\* argv.includes("-h") || argv.includes("--help") || argv.length === 0
RootHelpRequested(a) == ArgvHasHelp(a) \/ Len(a) = 0

NestedHelp ==
    /\ pc = "Root"
    /\ RootHelpRequested(argv)
    /\ nestedResult' = NestedHelpResult(rootHelpText(subCommands))
    /\ pc' = "NestedDone"
    /\ UNCHANGED <<others, config, first, commands, argv, active, cmdArgv, rawParsed, resolved,
                   exception, result, out>>

\* neither a declared subcommand name nor a default command
NestedUnknown ==
    /\ pc = "Root"
    /\ ~RootHelpRequested(argv)
    /\ ~ResolveSubCommand(argv, subCommands, defaultCommand).known
    /\ nestedResult' = NestedErrorResult(JsErrorWith(ErrUnknownSubcommand, argv[1]),
                                         rootHelpText(subCommands))
    /\ pc' = "NestedDone"
    /\ UNCHANGED <<others, config, first, commands, argv, active, cmdArgv, rawParsed, resolved,
                   exception, result, out>>

\* the subcommand is resolved and its command.parse(subCommandArgs) is called
NestedDispatch ==
    /\ pc = "Root"
    /\ ~RootHelpRequested(argv)
    /\ LET sub == ResolveSubCommand(argv, subCommands, defaultCommand)
       IN  /\ sub.known
           /\ IF CommandIndex(commands, sub.name) = 0
              THEN /\ nestedResult' = NestedErrorResult(
                                          JsErrorWith(ErrUnknownSubcommand, sub.name),
                                          rootHelpText(subCommands))
                   /\ pc' = "NestedDone"
                   /\ UNCHANGED <<active, cmdArgv>>
              ELSE /\ active' = CommandIndex(commands, sub.name)
                   /\ cmdArgv' = sub.args
                   /\ pc' = "Start"
                   /\ UNCHANGED nestedResult
    /\ UNCHANGED <<others, config, first, commands, argv, rawParsed, resolved, exception, result, out>>

\* return { type: "subcommand", name, result: command.parse(subCommandArgs) }
NestedReturn ==
    /\ CommandReturned
    /\ entry = "createSubParser"
    /\ nestedResult' = SubCommandResult(commands[active].name, result)
    /\ pc' = "NestedDone"
    /\ UNCHANGED <<others, config, first, commands, argv, active, cmdArgv, rawParsed, resolved,
                   exception, result, out>>

\* createSubParser.parse: the statements after subCommandHandler.parse(argv)
SubParserParseReturn ==
    /\ pc = "NestedDone"
    /\ out' = SubParserParse(nestedResult)
    /\ pc' = "Returned"
    /\ UNCHANGED <<others, config, first, commands, argv, active, cmdArgv, rawParsed, resolved,
                   exception, result, nestedResult>>

\* createSubParser.safeParse: the statements after subCommandHandler.parse(argv)
SubParserSafeParseReturn ==
    /\ pc = "NestedDone"
    /\ out' = SubParserSafeParse(nestedResult)
    /\ pc' = "Returned"
    /\ UNCHANGED <<others, config, first, commands, argv, active, cmdArgv, rawParsed, resolved,
                   exception, result, nestedResult>>

Next ==
    \/ ConstructParser
    \/ ConstructSubParser
    \/ CallParser
    \/ HelpDetected
    \/ Tokenize
    \/ Resolve
    \/ Validate
    \/ Catch
    \/ ParserParseReturn
    \/ ParserSafeParseReturn
    \/ CallSubParser
    \/ NestedHelp
    \/ NestedUnknown
    \/ NestedDispatch
    \/ NestedReturn
    \/ SubParserParseReturn
    \/ SubParserSafeParseReturn

Spec == Init /\ [][Next]_vars

\* ------------------------------------------------------------------------
\* Repeated calls on one parser.  Each call starts with fresh locals; the
\* model remembers the argv and the outcome of the first completed call.
\* ------------------------------------------------------------------------

\* the tokens of the repeated calls: a help flag, two plain tokens and one
\* spelling of each declared option
RepeatTokens(named) ==
    {tHelp, tA, t5}
    \cup (IF "vb" \in named THEN {tV} ELSE {})
    \cup (IF "cn" \in named THEN {tCountEq} ELSE {})

ShortArgvOver(tokens) == UNION {[1..n -> tokens] : n \in 0..RepeatArgc}

\* the first completed call, once there is one
Remember == IF pc = "Returned" /\ first = NoCall THEN [argv |-> argv, out |-> out] ELSE first

\* a first or a further call of createParser's parse / safeParse
RecallParser ==
    /\ pc \in {"Ready", "Returned"}
    /\ entry = "createParser"
    /\ \E a \in ShortArgvOver(RepeatTokens(DeclaredNamed(definition.args))) :
          /\ argv' = a
          /\ cmdArgv' = a
    /\ first' = Remember
    /\ active' = 1
    /\ pc' = "Start"
    /\ rawParsed' = NoRaw
    /\ resolved' = EmptyObject
    /\ exception' = NoError
    /\ result' = NoResult
    /\ out' = NoOut
    /\ UNCHANGED <<others, config, commands, nestedResult>>

\* a first or a further call of createSubParser's parse / safeParse
RecallSubParser ==
    /\ pc \in {"Ready", "Returned"}
    /\ entry = "createSubParser"
    /\ argv' \in ShortArgvOver({tHelp, tA, tB, t5})
    /\ first' = Remember
    /\ active' = 0
    /\ cmdArgv' = <<>>
    /\ pc' = "Root"
    /\ rawParsed' = NoRaw
    /\ resolved' = EmptyObject
    /\ exception' = NoError
    /\ result' = NoResult
    /\ nestedResult' = NoNestedResult
    /\ out' = NoOut
    /\ UNCHANGED <<others, config, commands>>

\* the parsers that are called repeatedly: at most one indexed positional
\* and at most one named option
InitRepeat ==
    /\ Init
    /\ Len(SelectSeq(definition.args, LAMBDA x : x.positional.k = "number")) <= 1
    /\ Cardinality(DeclaredNamed(definition.args)) <= 1

NextRepeat ==
    \/ ConstructParser
    \/ ConstructSubParser
    \/ RecallParser
    \/ HelpDetected
    \/ Tokenize
    \/ Resolve
    \/ Validate
    \/ Catch
    \/ ParserParseReturn
    \/ ParserSafeParseReturn
    \/ RecallSubParser
    \/ NestedHelp
    \/ NestedUnknown
    \/ NestedDispatch
    \/ NestedReturn
    \/ SubParserParseReturn
    \/ SubParserSafeParseReturn

SpecRepeat == InitRepeat /\ [][NextRepeat]_vars

\* ------------------------------------------------------------------------
\* run(schema, args, onSuccess, onError) (utils.ts)
\* ------------------------------------------------------------------------

\* how a callback ends
Endings == {"returns", "throws"}

\* run was called with both callbacks and stands before schema.parse(args)
RunCalls ==
    {[at |-> "try", onSuccess |-> s, onError |-> e, invoked |-> <<>>] : s \in Endings, e \in Endings}

\* the parsers without rest spec and without named options, and the
\* subcommand parsers
InitRun ==
    /\ ParserNew
    /\ entry = "createParser" =>
          \E p \in WellFormedLists \cup {<<1>>}, f \in {0} \cup DOMAIN FirstTypes :
              /\ InFamily(p, f, 0, 1, {})
              /\ definition = SchemaOf(p, f, 0, 1, {})
    /\ runner \in RunCalls
    /\ ci = NoPoller
    /\ trip = NoTrip

parser == <<config, first, commands, pc, argv, active, cmdArgv, rawParsed, resolved,
            exception, result, nestedResult, out>>

\* const data = schema.parse(args) returned: onSuccess(data)
RunOnSuccess ==
    /\ runner.at = "try"
    /\ pc = "Returned"
    /\ ~out.threw
    /\ runner' = [runner EXCEPT !.invoked = Append(@, "onSuccess"),
                                !.at = IF runner.onSuccess = "throws" THEN "catch" ELSE "done"]
    /\ UNCHANGED <<parser, ci, trip>>

\* schema.parse(args) threw: control goes to the catch block
RunParseThrew ==
    /\ runner.at = "try"
    /\ pc = "Returned"
    /\ out.threw
    /\ runner' = [runner EXCEPT !.at = "catch"]
    /\ UNCHANGED <<parser, ci, trip>>

\* catch (error) { onError(error instanceof Error ? error : ...) }
RunOnError ==
    /\ runner.at = "catch"
    /\ runner' = [runner EXCEPT !.invoked = Append(@, "onError"),
                                !.at = IF runner.onError = "throws" THEN "thrown" ELSE "done"]
    /\ UNCHANGED <<parser, ci, trip>>

NextRun ==
    \/ ConstructParser
    \/ ConstructSubParser
    \/ CallParser
    \/ HelpDetected
    \/ Tokenize
    \/ Resolve
    \/ Validate
    \/ Catch
    \/ ParserParseReturn
    \/ CallSubParser
    \/ NestedHelp
    \/ NestedUnknown
    \/ NestedDispatch
    \/ NestedReturn
    \/ SubParserParseReturn
    \/ RunOnSuccess
    \/ RunParseThrew
    \/ RunOnError

SpecRun == InitRun /\ [][NextRun]_vars

\* ------------------------------------------------------------------------
\* The CI pollers (src/scripts)
\* ------------------------------------------------------------------------

Pollers == {"waitForCI", "pushWithWaitCI", "PushWithWaitCI"}

\* gh run list printed nothing
EmptyOutput == 0

\* prevRunId = "<not-found>"
NotFoundMarker == MaxRunId + 1

\* the command could not be run or exited with an error (err != nil)
CommandFailed == MaxRunId + 2

\* what one gh run list --limit 1 hands to the poller: a run id or nothing;
\* the Go poller also looks at the error of the command
Outputs(poller) ==
    (0..MaxRunId) \cup (IF poller = "PushWithWaitCI" THEN {CommandFailed} ELSE {})

\* let maxRetry = 5 / let maxRetry = 3 / maxRetry := 3
maxRetry(poller) == IF poller = "waitForCI" THEN 5 ELSE 3

\* the id recorded before the push, from the output o of gh run list
PrevRunId(poller, o) ==
    IF poller = "waitForCI" THEN o
    ELSE IF o = EmptyOutput \/ o = CommandFailed THEN NotFoundMarker ELSE o

\* the loop breaks on any output, changed or not
FoundOnAnyOutput(poller, prevRunId, o) == o # CommandFailed

\* the condition under which the loop stores the id and breaks
Found(poller, prevRunId, o) ==
    IF poller = "PushWithWaitCI"
    THEN o # CommandFailed /\ o # prevRunId /\ o # EmptyOutput
    ELSE prevRunId # o

PollerCalls ==
    {[NoPoller EXCEPT !.poller = p, !.at = "start"] : p \in Pollers}

\* the parser is not in use
ParserUnused ==
    /\ entry = ""
    /\ definition = NoDefinition
    /\ subCommands = <<>>
    /\ defaultCommand = <<>>
    /\ commands = <<>>
    /\ pc = "Unused"
    /\ argv = <<>>
    /\ active = 0
    /\ cmdArgv = <<>>
    /\ rawParsed = NoRaw
    /\ resolved = EmptyObject
    /\ exception = NoError
    /\ result = NoResult
    /\ nestedResult = NoNestedResult
    /\ out = NoOut
    /\ first = NoCall

InitCI ==
    /\ ParserUnused
    /\ runner = NoRun
    /\ trip = NoTrip
    /\ ci \in PollerCalls

\* the statements before the loop: the previous run id, git push, the first
\* sleep; waitForCI gives up when no previous run exists, the Go poller when
\* git push fails
RecordAndPush ==
    /\ ci.at = "start"
    /\ \E o \in Outputs(ci.poller), pushOk \in BOOLEAN :
          IF ci.poller = "waitForCI" /\ o = EmptyOutput
          THEN ci' = [ci EXCEPT !.at = "notFound", !.error = "workflow_not_found"]
          ELSE IF ci.poller = "PushWithWaitCI" /\ ~pushOk
          THEN ci' = [ci EXCEPT !.at = "failed", !.error = "git push",
                                !.prevRunId = PrevRunId(ci.poller, o)]
          ELSE /\ ci.poller # "PushWithWaitCI" => pushOk
               /\ ci' = [ci EXCEPT !.at = "poll", !.pushed = TRUE,
                                   !.prevRunId = PrevRunId(ci.poller, o),
                                   !.maxRetry = maxRetry(ci.poller)]
    /\ UNCHANGED <<parser, runner, trip>>

\* one pass of the loop up to its break or its sleep: gh run list once more
Query ==
    /\ ci.at = "poll"
    /\ ci.maxRetry > 0
    /\ \E o \in Outputs(ci.poller) :
          ci' = [ci EXCEPT !.maxRetry = @ - 1,
                           !.outputs = Append(@, o),
                           !.runId = IF Found(ci.poller, ci.prevRunId, o) THEN o ELSE @,
                           !.at = IF Found(ci.poller, ci.prevRunId, o) THEN "after" ELSE "sleep"]
    /\ UNCHANGED <<parser, runner, trip>>

\* the sleep of five seconds that ends a pass without break
Sleep ==
    /\ ci.at = "sleep"
    /\ ci' = [ci EXCEPT !.sleeps = @ + 1, !.at = "poll"]
    /\ UNCHANGED <<parser, runner, trip>>

\* the loop condition fails
LoopExhausted ==
    /\ ci.at = "poll"
    /\ ci.maxRetry = 0
    /\ ci' = [ci EXCEPT !.at = "after"]
    /\ UNCHANGED <<parser, runner, trip>>

\* if (!runId) return err(workflow_not_found); otherwise gh run watch
AfterLoop ==
    /\ ci.at = "after"
    /\ IF ci.runId = EmptyOutput
       THEN ci' = [ci EXCEPT !.at = "notFound", !.error = "workflow_not_found"]
       ELSE ci' = [ci EXCEPT !.at = "watch", !.watched = TRUE]
    /\ UNCHANGED <<parser, runner, trip>>

\* gh run watch, gh run view: the conclusion of the run
Watch ==
    /\ ci.at = "watch"
    /\ \E success \in BOOLEAN :
          ci' = [ci EXCEPT !.at = IF success THEN "ok" ELSE "failed",
                           !.error = IF success THEN "" ELSE "workflow_failed"]
    /\ UNCHANGED <<parser, runner, trip>>

NextCI ==
    \/ RecordAndPush
    \/ Query
    \/ Sleep
    \/ LoopExhausted
    \/ AfterLoop
    \/ Watch

\* a poller is a sequential function: its next statement runs
SpecCI == InitCI /\ [][NextCI]_vars /\ WF_vars(NextCI)

\* ------------------------------------------------------------------------
\* A default value through generateHelp and back through convertValue
\* ------------------------------------------------------------------------

\* the sequences over S of at most MaxDefaultLen items
ShortSeqs(S) == UNION {[1..n -> S] : n \in 0..MaxDefaultLen}

\* the (type, default) pairs, one family per supported value type
TypedDefaults ==
    {<<ZodString, Str(v)>> : v \in ShortSeqs({"a", "5"})}
    \cup {<<ZodNumber, Num(n)>> : n \in 0..MaxDefault}
    \cup {<<ZodBoolean, Bool(b)>> : b \in BOOLEAN}
    \cup {<<ZodEnum(<<tA, tB>>), Str(v)>> : v \in {tA, tB}}
    \cup {<<ZodArray(ZodString), Arr(v)>> : v \in ShortSeqs({Str(tA), Str(t5)})}
    \cup {<<ZodArray(ZodNumber), Arr(v)>> : v \in ShortSeqs({Num(0), Num(5)})}

InitTrip ==
    /\ ParserUnused
    /\ runner = NoRun
    /\ ci = NoPoller
    /\ \E td \in TypedDefaults :
          trip = [NoTrip EXCEPT !.at = "declared", !.type = td[1], !.default = td[2]]

\* the spec that declares the default: { type: type.default(value) }
DefaultSpec == QueryBase(<<"o">>, ZodDefault(trip.type, trip.default), PosNone, "")

\* generateHelp: the text after "default: " on the line of the option
RenderDefault ==
    /\ trip.at = "declared"
    /\ trip' = [trip EXCEPT !.at = "rendered", !.rendered = OptionLine(DefaultSpec).default]
    /\ UNCHANGED <<parser, runner, ci>>

\* convertValue(token, type) on the rendered text
ConvertRendered ==
    /\ trip.at = "rendered"
    /\ trip' = [trip EXCEPT !.at = "converted",
                            !.converted = convertValue(Str(trip.rendered), DefaultSpec.type)]
    /\ UNCHANGED <<parser, runner, ci>>

\* convertValue(value, type) on the default value itself
ConvertValue ==
    /\ trip.at = "declared"
    /\ trip' = [trip EXCEPT !.at = "direct",
                            !.converted = convertValue(trip.default, DefaultSpec.type)]
    /\ UNCHANGED <<parser, runner, ci>>

NextTrip ==
    \/ RenderDefault
    \/ ConvertRendered
    \/ ConvertValue

SpecTrip == InitTrip /\ [][NextTrip]_vars

\* ------------------------------------------------------------------------
\* Properties
\* ------------------------------------------------------------------------

\* the token --help or -h occurs in a
HasHelpToken(a) == \E i \in DOMAIN a : a[i] = tHelp \/ a[i] = tH

\* the definition of the command whose parse runs
ActiveDefinition == IF entry = "createParser" THEN definition ELSE subCommands[active].def

ActiveArgs == ActiveDefinition.args

\* the specs with an explicit integer position, and their positions
IndexedSpecs(queryDef) == {i \in DOMAIN queryDef : queryDef[i].positional.k = "number"}

ExplicitPositions(queryDef) == {queryDef[i].positional.i : i \in IndexedSpecs(queryDef)}

SharedPosition(queryDef) ==
    \E i, j \in IndexedSpecs(queryDef) :
        i # j /\ queryDef[i].positional.i = queryDef[j].positional.i

\* the explicit positions are not exactly {0..max}
GapInPositions(queryDef) ==
    \E n \in ExplicitPositions(queryDef) : \E m \in 0..n : m \notin ExplicitPositions(queryDef)

RestSpecs(queryDef) == {i \in DOMAIN queryDef : queryDef[i].positional.k = "..."}

TrueSpecs(queryDef) == {i \in DOMAIN queryDef : queryDef[i].positional.k = "true"}

\* createCommand.parse has returned (or an exception has left it)
ParseEnded == active # 0 /\ pc \in {"Help", "Success", "Error", "Thrown"}

\* C1: whenever --help or -h occurs at any index of the argv given to the
\* command parser's parse, of a well-formed or a malformed schema, the
\* result is Help with the help text of the schema, never Success or Error.
C1_HelpPrecedence ==
    (ParseEnded /\ HasHelpToken(cmdArgv)) =>
        /\ result.type = "help"
        /\ result.helpText = generateHelp(ActiveDefinition.name, ActiveDefinition.description,
                                          ActiveArgs, <<>>)

\* Help was returned for an argv whose first token is not a help flag and
\* whose schema is malformed
C1_Witness ==
    /\ pc = "Help"
    /\ Len(cmdArgv) >= 2
    /\ cmdArgv[1] = tUnknown
    /\ cmdArgv[2] = tH
    /\ SharedPosition(ActiveArgs)

\* C2: for a schema in which two specs share an explicit integer position or
\* the explicit positions are not exactly {0..max}, parse of an argv without
\* a help flag ends in Error with the configuration error of resolveValues,
\* never in Success.
C2_MalformedPositionsFail ==
    (ParseEnded /\ ~HasHelpToken(cmdArgv)
       /\ (SharedPosition(ActiveArgs) \/ GapInPositions(ActiveArgs))) =>
        /\ result.type = "error"
        /\ result.error.name = "Error"
        /\ result.error.message \in {ErrDuplicateIndex, ErrNotSequential}

\* a schema with a gap and no duplicate was given as many positional tokens
\* as its highest position needs, and parse returned Error
C2_Witness ==
    /\ pc = "Error"
    /\ GapInPositions(ActiveArgs)
    /\ ~SharedPosition(ActiveArgs)
    /\ Len(rawParsed.positionals) >= 2
    /\ result.error.message = ErrNotSequential

\* C3 (as claimed): for a schema whose explicit positions are exactly
\* {0..n} with no duplicate, for every n, resolveValues raises no
\* duplicate-index and no non-contiguous-index error.
C3_WellFormedPositionsResolve ==
    (active # 0 /\ pc = "ResolutionFailed"
       /\ ~SharedPosition(ActiveArgs) /\ ~GapInPositions(ActiveArgs)) =>
        exception.message \notin {ErrDuplicateIndex, ErrNotSequential}

\* C4 (as claimed): for a schema with two or more rest specs, parse of an
\* argv without a help flag never returns Success.
C4_MultipleRestFails ==
    (ParseEnded /\ ~HasHelpToken(cmdArgv) /\ Cardinality(RestSpecs(ActiveArgs)) >= 2) =>
        result.type = "error"

\* the tokens of a that are neither a help flag nor an option-like token
PlainTokens(a) == SelectSeq(a, LAMBDA tok : tok[1] # "-")

\* C5 (as claimed): for the boolean option vb declared with default false
\* (and no other named option), resolution sets the field to false when
\* argv has no token for it and to true when the bare flag --vb or -v
\* occurs at any index, and every other token that is not option-like stays
\* a positional token.
C5_BooleanFlag ==
    (active # 0 /\ pc = "Resolved" /\ DeclaredNamed(ActiveArgs) = {"vb"}) =>
        /\ Get(resolved, kVerbose) =
              Bool(\E i \in DOMAIN cmdArgv : cmdArgv[i] = tVerbose \/ cmdArgv[i] = tV)
        /\ rawParsed.positionals = PlainTokens(cmdArgv)

\* the outcome of the call is a success
CallSucceeded ==
    IF entry = "createParser" THEN result.type = "success"
    ELSE nestedResult.type = "subcommand" /\ nestedResult.result.type = "success"

\* C7: safeParse of createParser and of createSubParser never throws: a
\* failure of resolution (a configuration error, a default thunk that
\* throws) or of validation comes back as a result that is not ok and
\* carries the error.
C7_SafeParseNeverThrows ==
    (pc = "Returned" /\ out.api = "safeParse") =>
        /\ ~out.threw
        /\ out.ok <=> CallSucceeded
        /\ ~out.ok => out.error # NoError

\* safeParse returned after a default thunk threw during resolution
C7_Witness ==
    /\ pc = "Returned"
    /\ out.api = "safeParse"
    /\ exception.message = ErrDefaultThunk
    /\ ~out.ok

\* the j-th (from 1) of the specs in the set specs, in declaration order
Rank(specs, i) == Cardinality({k \in specs : k <= i})

\* C8 (as claimed): for a schema made of specs with positional: true only,
\* given exactly one plain token per spec, parse returns Success and the
\* j-th spec in declaration order holds the j-th token.
C8_PositionalTrueInOrder ==
    (ParseEnded /\ TrueSpecs(ActiveArgs) # {} /\ TrueSpecs(ActiveArgs) = DOMAIN ActiveArgs
       /\ Len(cmdArgv) = Len(ActiveArgs) /\ PlainTokens(cmdArgv) = cmdArgv) =>
        /\ result.type = "success"
        /\ \A i \in TrueSpecs(ActiveArgs) :
              Get(result.data, ActiveArgs[i].key) = Str(cmdArgv[Rank(TrueSpecs(ActiveArgs), i)])

RECURSIVE BaseType(_)
\* the type under the optional and default wrappers
BaseType(zodType) ==
    IF zodType.tag \in {"ZodOptional", "ZodDefault"} THEN BaseType(zodType.innerType)
    ELSE zodType

\* the value a positional token takes in a field of the given type
Coerced(zodType, tok) == IF zodType.tag = "ZodNumber" THEN Number(Str(tok)) ELSE Str(tok)

\* the highest explicit integer position, -1 when there is none
MaxExplicit(queryDef) ==
    IF ExplicitPositions(queryDef) = {} THEN -1
    ELSE CHOOSE m \in ExplicitPositions(queryDef) : \A n \in ExplicitPositions(queryDef) : n <= m

\* the rest spec that is used: the one declared first
FirstRest(queryDef) == CHOOSE i \in RestSpecs(queryDef) : \A j \in RestSpecs(queryDef) : i <= j

\* C9: when the schema has a rest spec of array type (the one declared
\* first, if several), the rest field of a Success holds exactly the
\* positional tokens at indices greater than the highest explicit integer
\* position, in order (all of them when there is no explicit position, none
\* when none is left), each as a value of the element type, and the spec
\* with explicit position i holds positional token i.
C9_RestTakesRemaining ==
    (active # 0 /\ pc = "Success" /\ RestSpecs(ActiveArgs) # {}
       /\ ActiveArgs[FirstRest(ActiveArgs)].type.tag = "ZodArray") =>
        LET q == ActiveArgs
            pos == rawParsed.positionals
            from == MaxExplicit(q) + 1
            rest == q[FirstRest(q)]
        IN  /\ Get(result.data, rest.key).t = "array"
            /\ Len(Get(result.data, rest.key).v) = (IF Len(pos) > from THEN Len(pos) - from ELSE 0)
            /\ \A k \in DOMAIN Get(result.data, rest.key).v :
                  Get(result.data, rest.key).v[k] = Coerced(rest.type.type, pos[from + k])
            /\ \A i \in IndexedSpecs(q) :
                  q[i].positional.i < Len(pos) =>
                      Get(result.data, q[i].key) =
                          Coerced(BaseType(q[i].type), pos[q[i].positional.i + 1])

\* a Success whose rest field took two tokens after an indexed positional
C9_Witness ==
    /\ pc = "Success"
    /\ active # 0
    /\ ExplicitPositions(ActiveArgs) = {0}
    /\ RestSpecs(ActiveArgs) # {}
    /\ ActiveArgs[FirstRest(ActiveArgs)].type.tag = "ZodArray"
    /\ Len(rawParsed.positionals) = 3
    /\ Len(Get(result.data, ActiveArgs[FirstRest(ActiveArgs)].key).v) = 2

\* the subcommand map declares the name
Declared(name) == \E i \in DOMAIN subCommands : subCommands[i].name = name

DeclaredDef(name) == subCommands[CHOOSE i \in DOMAIN subCommands : subCommands[i].name = name].def

\* C10: in the dispatcher, for a non-empty argv without a help flag whose
\* first token is a declared subcommand name, the result names that
\* subcommand and its inner result is that subcommand's parse of argv
\* without its first token, also when a default command is configured.
C10_DeclaredNameDispatch ==
    (entry = "createSubParser" /\ pc = "NestedDone" /\ argv # <<>> /\ ~HasHelpToken(argv)
       /\ Declared(argv[1])) =>
        /\ nestedResult.type = "subcommand"
        /\ nestedResult.name = argv[1]
        /\ nestedResult.result = parse(createCommand(DeclaredDef(argv[1])), Tail(argv))

\* a declared name other than the configured default command was dispatched
\* and its parser returned Success
C10_Witness ==
    /\ entry = "createSubParser"
    /\ pc = "NestedDone"
    /\ defaultCommand = tB
    /\ Len(argv) >= 2
    /\ argv[1] = tA
    /\ nestedResult.type = "subcommand"
    /\ nestedResult.result.type = "success"

C11_DefaultTakesWholeArgv ==
    (entry = "createSubParser" /\ pc = "NestedDone" /\ defaultCommand # <<>>
       /\ argv # <<>> /\ ~HasHelpToken(argv) /\ ~Declared(argv[1])) =>
        /\ cmdArgv = argv
        /\ nestedResult.name = defaultCommand
        /\ nestedResult = nestedParse(subCommands, defaultCommand, <<defaultCommand>> \o argv)

\* the default command parsed an argv of two tokens and returned Success
C11_Witness ==
    /\ entry = "createSubParser"
    /\ pc = "NestedDone"
    /\ defaultCommand = tA
    /\ Len(argv) >= 2
    /\ ~Declared(argv[1])
    /\ nestedResult.type = "subcommand"
    /\ nestedResult.result.type = "success"

\* C12: in the dispatcher, an empty argv or a help flag at any index gives
\* the root Help, whose text has one line per declared subcommand with its
\* name and description; no subcommand is matched and no command runs, the
\* default command included.
C12_RootHelpFirst ==
    (entry = "createSubParser" /\ pc \in {"NestedDone", "Returned"}
       /\ (argv = <<>> \/ HasHelpToken(argv))) =>
        /\ nestedResult.type = "help"
        /\ \A i \in DOMAIN subCommands :
              \E k \in DOMAIN nestedResult.helpText :
                  nestedResult.helpText[k] =
                      HelpLine("SUBCOMMANDS", subCommands[i].name,
                               <<subCommands[i].def.description>>, "", <<>>)
        /\ active = 0
        /\ result = NoResult

\* the root help was returned for an empty argv although a default command
\* is configured
C12_Witness ==
    /\ entry = "createSubParser"
    /\ pc = "NestedDone"
    /\ argv = <<>>
    /\ defaultCommand # <<>>
    /\ Len(subCommands) = 2
    /\ nestedResult.type = "help"

\* C13: in a dispatcher with no default command, for a non-empty argv
\* without a help flag whose first token is not a declared name, parse
\* returns an Error that names that token and carries the root help text,
\* and no subcommand parser runs.
C13_UnknownSubcommand ==
    (entry = "createSubParser" /\ pc \in {"NestedDone", "Returned"} /\ defaultCommand = <<>>
       /\ argv # <<>> /\ ~HasHelpToken(argv) /\ ~Declared(argv[1])) =>
        /\ nestedResult.type = "error"
        /\ nestedResult.error = JsErrorWith(ErrUnknownSubcommand, argv[1])
        /\ nestedResult.helpText = generateHelp(rootName, rootDescription, <<>>, subCommands)
        /\ active = 0
        /\ result = NoResult

\* an unknown first token followed by a declared name was rejected
C13_Witness ==
    /\ entry = "createSubParser"
    /\ pc = "NestedDone"
    /\ defaultCommand = <<>>
    /\ Len(argv) >= 2
    /\ argv[1] = t5
    /\ Declared(argv[2])
    /\ nestedResult.type = "error"

\* C14: createNestedCommands fails at construction exactly when the default
\* command is set and names no entry of the subcommand map; in a dispatcher
\* that was constructed a set default command is a command name, and the
\* lookup of the resolved subcommand finds a command.
C14_DefaultCommandDeclared ==
    (entry = "createSubParser" /\ pc # "New") =>
        /\ pc = "ConstructionFailed" <=>
              (defaultCommand # <<>> /\ ~Declared(defaultCommand))
        /\ pc # "ConstructionFailed" =>
              /\ defaultCommand # <<>> => Declared(defaultCommand)
              /\ (argv # <<>> /\ ~HasHelpToken(argv)
                    /\ ResolveSubCommand(argv, subCommands, defaultCommand).known) =>
                    \E i \in DOMAIN commands :
                        commands[i].name =
                            ResolveSubCommand(argv, subCommands, defaultCommand).name
        /\ (pc = "NestedDone" /\ nestedResult.type = "error") =>
              (defaultCommand = <<>> /\ ~Declared(argv[1]))

\* the construction failed for a default command that is not in the map
C14_Witness ==
    /\ entry = "createSubParser"
    /\ pc = "ConstructionFailed"
    /\ defaultCommand = tA
    /\ ~Declared(tA)

\* the number of positional slots a schema without a rest spec declares
DeclaredSlots(queryDef) ==
    IF ExplicitPositions(queryDef) = {} THEN 0
    ELSE 1 + CHOOSE n \in ExplicitPositions(queryDef) :
                 \A m \in ExplicitPositions(queryDef) : m <= n

\* an option-like token that names no declared option
HasUnknownOption(a) == \E i \in DOMAIN a : a[i] = tUnknown

\* C15 (as claimed): when an argv without a help flag holds an option-like
\* token that names no declared option, or, for a schema with no rest spec,
\* more positional tokens than the schema has positional slots, parse
\* returns an Error with a message and the help text, never Success.
C15_UnmatchedTokenFails ==
    (ParseEnded /\ ~HasHelpToken(cmdArgv) /\ TrueSpecs(ActiveArgs) = {}
       /\ \/ HasUnknownOption(cmdArgv)
          \/ /\ RestSpecs(ActiveArgs) = {}
             /\ DeclaredNamed(ActiveArgs) = {}
             /\ Len(PlainTokens(cmdArgv)) > DeclaredSlots(ActiveArgs)) =>
        /\ result.type = "error"
        /\ result.error # NoError
        /\ result.helpText = command.helpText

\* C16 (as claimed): for a schema that declares no named option, every token
\* of an argv without a help flag, an option-like token such as --x
\* included, reaches the resolver as a positional token, in argv order.
C16_UnmatchedTokensArePositionals ==
    (active # 0 /\ pc = "Tokenized" /\ DeclaredNamed(ActiveArgs) = {}) =>
        rawParsed.positionals = cmdArgv

\* the token is the long or the short spelling of a declared named option
\* that takes a value
ValueTaking(queryDef, tok) ==
    \E i \in DOMAIN queryDef :
        /\ queryDef[i].positional = PosNone
        /\ zodTypeToParseArgsType(queryDef[i].type) = "string"
        /\ \/ tok = <<"-", "-">> \o queryDef[i].key
           \/ queryDef[i].short # "" /\ tok = <<"-", queryDef[i].short>>

RECURSIVE PlainPositionals(_, _)
\* the tokens of a that do not start with a dash and do not follow a
\* value-taking option
PlainPositionals(a, queryDef) ==
    IF a = <<>> THEN <<>>
    ELSE IF Head(a)[1] # "-" THEN <<Head(a)>> \o PlainPositionals(Tail(a), queryDef)
    ELSE IF ValueTaking(queryDef, Head(a)) /\ Len(a) >= 2
    THEN PlainPositionals(Tail(Tail(a)), queryDef)
    ELSE PlainPositionals(Tail(a), queryDef)

\* C16 (amended): the positional tokens that reach the resolver are, in argv
\* order, the tokens that do not start with a dash and are not taken as the
\* value of a declared value-taking option; an option-like token that names
\* no declared option is not among them: it is stored under its name with
\* the value true.
C16_PlainTokensArePositionals ==
    (active # 0 /\ pc = "Tokenized") =>
        /\ rawParsed.positionals = PlainPositionals(cmdArgv, ActiveArgs)
        /\ (DeclaredNamed(ActiveArgs) = {} /\ HasUnknownOption(cmdArgv)) =>
              Get(rawParsed.values, <<"x">>) = Bool(TRUE)

\* --x stood before a plain token, which became the first positional
C16_Witness ==
    /\ active # 0
    /\ pc = "Tokenized"
    /\ Len(cmdArgv) >= 2
    /\ cmdArgv[1] = tUnknown
    /\ cmdArgv[2] = tA
    /\ rawParsed.positionals[1] = tA

\* the tokens that spell the option cn
CountTokens == {tCount, tC, tCountEq}

\* --cn 10 stands at index i of a, where it is read as an option
CountSpelledAt(a, i) ==
    /\ i \in 1..(Len(a) - 1)
    /\ a[i] = tCount
    /\ a[i + 1] = t10
    /\ \A j \in 1..(i - 1) : a[j] \notin {tCount, tC}

\* a with the --cn 10 at index i spelled --cn=10, and spelled -c 10
SpelledWithEquals(a, i) == SubSeq(a, 1, i - 1) \o <<tCountEq>> \o SubSeq(a, i + 2, Len(a))

SpelledShort(a, i) == [a EXCEPT ![i] = tC]

\* C17: for the value option cn with short alias c and default 5, an argv
\* that spells the option --cn 10 gives the result of the same argv with
\* --cn=10 or with -c 10 at that point; the field is 10 when that is the
\* only spelling in argv, and the default 5 when argv has no token for it.
C17_SpellingsAgree ==
    (ParseEnded /\ pc \in {"Success", "Error"} /\ DeclaredNamed(ActiveArgs) = {"cn"}) =>
        /\ \A i \in DOMAIN cmdArgv :
              CountSpelledAt(cmdArgv, i) =>
                  /\ result = parse(command, SpelledWithEquals(cmdArgv, i))
                  /\ result = parse(command, SpelledShort(cmdArgv, i))
                  /\ (\A j \in (i + 1)..Len(cmdArgv) : cmdArgv[j] \notin CountTokens) =>
                        Get(resolved, kCount) = Num(10)
        /\ (\A j \in DOMAIN cmdArgv : cmdArgv[j] \notin CountTokens) =>
              Get(resolved, kCount) = Num(5)

\* a positional token, then --cn 10: parse returned Success with cn = 10
C17_Witness ==
    /\ pc = "Success"
    /\ DeclaredNamed(ActiveArgs) = {"cn"}
    /\ cmdArgv = <<tA, tCount, t10>>
    /\ Get(result.data, kCount) = Num(10)
    /\ Get(result.data, <<"p", "0">>) = Str(tA)

\* C18 (as claimed): for an argv with a help flag, what safeParse returns is
\* not the variant that reports a failure (ok: false with an error).
C18_HelpIsDistinctVariant ==
    (pc = "Returned" /\ out.api = "safeParse" /\ HasHelpToken(argv)) =>
        out.error = NoError

\* C18 (amended): for an argv with a help flag, safeParse of createParser
\* and of createSubParser returns the variant of a failure, ok: false with
\* Error("Help requested") and no help text; the help outcome is a variant
\* of its own, type "help" with the help text, only in the result of the
\* parse underneath.
C18_HelpIsNotOkError ==
    (pc = "Returned" /\ out.api = "safeParse" /\ HasHelpToken(argv)) =>
        /\ out = [api |-> "safeParse", threw |-> FALSE, ok |-> FALSE, command |-> <<>>,
                  data |-> EmptyObject,
                  error |-> [name |-> "Error", message |-> "Help requested",
                             detail |-> <<>>, issues |-> {}]]
        /\ entry = "createParser" =>
              /\ result.type = "help"
              /\ result.helpText = command.helpText
        /\ entry = "createSubParser" =>
              /\ nestedResult.type = "help"
              /\ nestedResult.helpText = rootHelpText(subCommands)

\* safeParse of createParser returned for an argv that ends with -h
C18_Witness ==
    /\ pc = "Returned"
    /\ out.api = "safeParse"
    /\ entry = "createParser"
    /\ argv = <<tA, tH>>
    /\ ~out.ok

\* C19: every Error result of the command parser's parse, of a
\* configuration error, a throwing default thunk or a validation error,
\* carries the help text that the same parser's Help result carries.
C19_ErrorCarriesHelpText ==
    (ParseEnded /\ result.type = "error") =>
        /\ result.helpText = parse(command, <<tHelp>>).helpText
        /\ result.helpText =
              generateHelp(ActiveDefinition.name, ActiveDefinition.description,
                           ActiveArgs, <<>>)

\* the Error result of a configuration error
C19_Witness ==
    /\ ParseEnded
    /\ result.type = "error"
    /\ exception.message = ErrNotSequential
    /\ result.helpText # <<>>

\* C20: for a parser of createParser and every argv, parse returns data d
\* exactly when safeParse returns ok with data d, parse throws exactly when
\* safeParse returns ok: false, and for a validation or configuration
\* failure the error thrown is the error safeParse returns.
C20_ParseAgreesWithSafeParse ==
    (entry = "createParser" /\ pc = "Returned") =>
        LET other == IF out.api = "parse"
                     THEN ParserSafeParse(parse(command, argv))
                     ELSE ParserParse(parse(command, argv))
        IN  /\ other.api # out.api
            /\ (out.ok /\ ~out.threw) <=> (other.ok /\ ~other.threw)
            /\ out.ok => out.data = other.data
            /\ IF out.api = "parse" THEN out.threw <=> ~other.ok
                                    ELSE ~out.ok <=> other.threw
            /\ result.type = "error" => out.error = other.error /\ out.error = result.error

\* parse threw the validation error
C20_Witness ==
    /\ entry = "createParser"
    /\ pc = "Returned"
    /\ out.api = "parse"
    /\ out.threw
    /\ out.error.name = "ZodError"

\* C22 (as claimed): for every schema, one with a named argument called
\* help or with an option of short alias h included, the option table of
\* every command holds the entry help as a boolean option with short alias h.
C22_HelpOptionKept ==
    \A c \in DOMAIN commands :
        \E k \in DOMAIN commands[c].command.parseArgsConfig.options :
            commands[c].command.parseArgsConfig.options[k] =
                [name |-> <<"h", "e", "l", "p">>, type |-> "boolean", short |-> "h",
                 multiple |-> FALSE]

\* the specs a help text lists under a section
ListedUnder(helpText, section) ==
    {helpText[k].key : k \in {j \in DOMAIN helpText :
                                helpText[j].section = section /\ helpText[j].key # <<>>}}

\* C23 (as claimed): in the help text of a command every spec is listed in
\* exactly one section: a spec with an integer position or with position
\* true under ARGUMENTS, the rest spec on the rest line, and the specs with
\* no position, and only those, under OPTIONS.
C23_OneSectionPerSpec ==
    \A c \in DOMAIN commands :
        LET queryDef == commands[c].command.queryDef
            helpText == commands[c].command.helpText
        IN  /\ ListedUnder(helpText, "ARGUMENTS") =
                  {queryDef[i].key : i \in IndexedSpecs(queryDef) \cup TrueSpecs(queryDef)}
            /\ ListedUnder(helpText, "OPTIONS") =
                  {queryDef[i].key : i \in {j \in DOMAIN queryDef :
                                              queryDef[j].positional = PosNone}}
            /\ ListedUnder(helpText, "REST") \subseteq
                  {queryDef[i].key : i \in RestSpecs(queryDef)}

\* C24 (as claimed): in the OPTIONS section no boolean-valued option, plain
\* or wrapped in optional or default, shows a type annotation.
C24_BooleanWithoutAnnotation ==
    \A c \in DOMAIN commands :
        LET queryDef == commands[c].command.queryDef
            helpText == commands[c].command.helpText
        IN  \A i \in DOMAIN queryDef, k \in DOMAIN helpText :
                (/\ queryDef[i].positional = PosNone
                 /\ BaseType(queryDef[i].type).tag = "ZodBoolean"
                 /\ helpText[k].section = "OPTIONS"
                 /\ helpText[k].key = queryDef[i].key) =>
                    helpText[k].type = <<>>

\* the spec is neither optional nor defaulted
Required(def) == def.type.tag \notin {"ZodOptional", "ZodDefault"}

\* the value is one the declared type allows, spelled out per type
WellTyped(def, v) ==
    /\ Required(def) => v # Undefined
    /\ v # Undefined =>
          /\ BaseType(def.type).tag = "ZodNumber" => (v.t = "number" /\ v # NaN)
          /\ BaseType(def.type).tag = "ZodString" => v.t = "string"
          /\ BaseType(def.type).tag = "ZodEnum" =>
                \E k \in DOMAIN BaseType(def.type).values : BaseType(def.type).values[k] = v.v
          /\ BaseType(def.type).tag = "ZodArray" => v.t = "array"

\* C25: whenever parse returns Success, every required spec has a value,
\* every number field holds a number, every enum field a member of its set
\* and every array field an array; and when the resolved record misses a
\* required field, holds NaN in a number field or a string outside the set
\* in an enum field, parse returns the Error of the validation, naming the
\* field, never Success.
C25_SuccessIsValidated ==
    /\ (ParseEnded /\ result.type = "success") =>
          \A i \in DOMAIN ActiveArgs :
              WellTyped(ActiveArgs[i], Get(result.data, ActiveArgs[i].key))
    /\ (ParseEnded /\ pc \in {"Success", "Error"} /\ exception = NoError) =>
          \A i \in DOMAIN ActiveArgs :
              ~WellTyped(ActiveArgs[i], Get(resolved, ActiveArgs[i].key)) =>
                  /\ result.type = "error"
                  /\ result.error.name = "ZodError"
                  /\ ActiveArgs[i].key \in result.error.issues

\* a number field was given the token a: the validation error names it
C25_Witness ==
    /\ pc = "Error"
    /\ active # 0
    /\ ActiveArgs[1].type = ZodNumber
    /\ cmdArgv[1] = tA
    /\ Get(resolved, ActiveArgs[1].key) = NaN
    /\ result.error.name = "ZodError"

\* the schema's rest spec (the one resolution uses) declares a scalar type
ScalarRest(queryDef) ==
    /\ restParam(queryDef) # 0
    /\ queryDef[restParam(queryDef)].type.tag \in {"ZodString", "ZodNumber"}

\* C26 as stated: when the rest spec declares a non-array type, parse
\* returns Success with the array of remaining tokens stored in the field.
C26_ScalarRestSucceeds ==
    (ParseEnded /\ active # 0 /\ result.type # "help" /\ ScalarRest(ActiveArgs)) =>
        /\ result.type = "success"
        /\ Get(result.data, ActiveArgs[restParam(ActiveArgs)].key).t = "array"

\* C26: when the rest spec declares a string or number type, resolution
\* assigns the array of the remaining positional tokens to the field without
\* failing, and validation catches the mismatch: parse returns the Error of
\* the validation, naming the rest field, and never Success.
C26_ScalarRestIsRejected ==
    (active # 0 /\ ScalarRest(ActiveArgs)) =>
        /\ pc # "ResolutionFailed"
        /\ pc = "Resolved" =>
              Get(resolved, ActiveArgs[restParam(ActiveArgs)].key) =
                  Arr(StrEach(SliceAfter(rawParsed.positionals,
                                         MathMax(positionalKeys(ActiveArgs)))))
        /\ (ParseEnded /\ result.type # "help") =>
              /\ result.type = "error"
              /\ result.error.name = "ZodError"
              /\ ActiveArgs[restParam(ActiveArgs)].key \in result.error.issues

\* a string-typed rest spec received one remaining token and parse has
\* returned the validation error
C26_Witness ==
    /\ pc = "Error"
    /\ active # 0
    /\ ScalarRest(ActiveArgs)
    /\ ActiveArgs[restParam(ActiveArgs)].type = ZodString
    /\ Get(resolved, ActiveArgs[restParam(ActiveArgs)].key).t = "array"
    /\ Len(Get(resolved, ActiveArgs[restParam(ActiveArgs)].key).v) = 1
    /\ result.error.name = "ZodError"

\* C28: under the subcommand dispatcher the inner command never reaches
\* Help, a subcommand result wraps a Success or an Error, and the
\* dispatcher's Help is the root help text, returned exactly when argv is
\* empty or holds a help flag at any index.
C28_NoInnerHelp ==
    entry = "createSubParser" =>
        /\ pc # "Help"
        /\ nestedResult.type = "subcommand" =>
              nestedResult.result.type \in {"success", "error"}
        /\ nestedResult.type = "help" =>
              /\ nestedResult.helpText = rootHelpText(subCommands)
              /\ \A c \in DOMAIN commands : nestedResult.helpText # commands[c].command.helpText
              /\ (argv = <<>> \/ HasHelpToken(argv))
        /\ (pc = "NestedDone" /\ (argv = <<>> \/ HasHelpToken(argv))) =>
              nestedResult.type = "help"

\* argv names a declared subcommand and then asks for help: root Help
C28_Witness ==
    /\ entry = "createSubParser"
    /\ pc = "NestedDone"
    /\ Len(argv) >= 2
    /\ CommandIndex(commands, argv[1]) # 0
    /\ argv[2] \in {tH, tHelp}
    /\ nestedResult.type = "help"

\* createCommand.parse is between its first statement and its return
Running == pc \in {"Start", "Tokenized", "Resolved", "ResolutionFailed"}

\* the running call moves on to its next statement; the function is
\* synchronous, so a call that has started never stays where it is
ParseStep ==
    /\ Running
    /\ pc' \in {"Help", "Tokenized", "Resolved", "ResolutionFailed", "Success", "Error", "Thrown"}

\* createParser over the schemas without named options and with no rest spec
InitParse ==
    /\ Init
    /\ entry = "createParser"
    /\ \E p \in PositionLists, f \in {0} \cup DOMAIN FirstTypes :
          /\ InFamily(p, f, 0, 1, {})
          /\ definition = SchemaOf(p, f, 0, 1, {})

NextParse ==
    \/ ConstructParser
    \/ CallParser
    \/ HelpDetected
    \/ Tokenize
    \/ Resolve
    \/ Validate
    \/ Catch
    \/ ParserParseReturn
    \/ ParserSafeParseReturn

SpecParse == InitParse /\ [][NextParse]_vars /\ WF_pc(ParseStep)

\* the steps into the three outcomes of createCommand.parse
C27_Steps ==
    /\ (pc' = "Help" /\ pc # "Help") =>
          /\ pc = "Start"
          /\ rawParsed = NoRaw
          /\ UNCHANGED <<rawParsed, resolved, exception>>
          /\ result'.type = "help"
    /\ (pc' = "Success" /\ pc # "Success") =>
          /\ pc = "Resolved"
          /\ rawParsed = parseArgsWrapper(cmdArgv, command.parseArgsConfig)
          /\ ~resolveValues(rawParsed, command.queryDef).threw
          /\ resolved = resolveValues(rawParsed, command.queryDef).value
          /\ zodIssues(command.queryDef, resolved) = {}
          /\ exception = NoError
          /\ result'.type = "success"
    /\ (pc' = "Error" /\ pc # "Error") =>
          /\ pc \in {"Resolved", "ResolutionFailed"}
          /\ rawParsed = parseArgsWrapper(cmdArgv, command.parseArgsConfig)
          /\ result'.type = "error"
    /\ pc = "Start" => pc' \in {"Start", "Help", "Tokenized"}
    /\ (pc \in {"Tokenized", "Resolved", "ResolutionFailed"} /\ pc' # pc) =>
          pc' \in {"Resolved", "ResolutionFailed", "Success", "Error"}

\* C27: every call of createCommand.parse ends in Help, Success or Error;
\* Help is entered from Start with nothing tokenized or resolved, Success
\* from Resolved after tokenization, resolution and validation succeeded,
\* Error only after tokenization; no other exit exists.
C27_ParseTerminates ==
    /\ [][C27_Steps]_vars
    /\ (pc = "Start") ~> (pc \in {"Help", "Success", "Error"})

\* a call has gone through tokenization and resolution into Success
C27_Witness ==
    /\ pc = "Success"
    /\ rawParsed # NoRaw
    /\ result.type = "success"
    /\ exception = NoError

\* run has returned or an exception has left it
RunEnded == runner.at \in {"done", "thrown"}

\* C29: when run(schema, args, onSuccess, onError) has ended, exactly one
\* callback was invoked: onSuccess when schema.parse returned, onError when
\* it threw; onError is never invoked after onSuccess.
C29_ExactlyOneCallback ==
    /\ RunEnded =>
          /\ Len(runner.invoked) = 1
          /\ runner.invoked[1] = (IF out.threw THEN "onError" ELSE "onSuccess")
    /\ \A i, j \in DOMAIN runner.invoked :
          (i < j /\ runner.invoked[i] = "onSuccess") => runner.invoked[j] # "onError"

\* the output is a run id other than the one recorded before the push
IsNewId(o) == o \in 1..MaxRunId /\ o # ci.prevRunId

PollerEnded == ci.at \in {"notFound", "ok", "failed"}

C21_RoundTrip ==
    /\ trip.at = "converted" => trip.converted = trip.default
    /\ (trip.at = "direct" /\ trip.type = ZodNumber) => trip.converted = trip.default

\* C21: for the number type the rendered default, converted back, equals
\* the default, and convertValue leaves a number value unchanged; for the
\* string, boolean, enum and array types the converted value is the rendered
\* text (alone in an array for the array types) and differs from the default.
C21_NumberRoundTrip ==
    /\ (trip.at = "converted" /\ trip.type = ZodNumber) => trip.converted = trip.default
    /\ (trip.at = "direct" /\ trip.type = ZodNumber) => trip.converted = trip.default
    /\ (trip.at = "converted" /\ trip.type.tag \in {"ZodString", "ZodBoolean", "ZodEnum"}) =>
          /\ trip.converted = Str(trip.rendered)
          /\ trip.converted # trip.default
    /\ (trip.at = "converted" /\ trip.type.tag = "ZodArray") =>
          /\ trip.converted = Arr(<<Str(trip.rendered)>>)
          /\ trip.converted # trip.default

\* the number 5 was rendered as the text 5 and converted back to 5
C21_Witness ==
    /\ trip.at = "converted"
    /\ trip.type = ZodNumber
    /\ trip.default = Num(5)
    /\ trip.rendered = <<"5">>
    /\ trip.converted = Num(5)

====
